---- MODULE Spec2Model ----
(***************************************************************************)
(* A model of the Xiangqi engine core of rs-chinese-chess: the Board       *)
(* (lib/engine/src/board.rs), the SearchState (lib/engine/src/search.rs)   *)
(* and the UCCI entry points (lib/engine/src/engine.rs).                   *)
(*                                                                         *)
(* Values.  A Chess is a record [player, ct] (Chess::None is NoChess); a   *)
(* Position is a record [row, col]; a Move is a record                     *)
(* [player, from, to, chess, capture]; Option<T> is a sequence of length   *)
(* 0 (None) or 1 (Some).  A u64 hash is the set of its set bit positions,  *)
(* so that XOR is the symmetric difference and AND is the intersection.    *)
(***************************************************************************)
EXTENDS Integers, Sequences, FiniteSets, TLC

(***************************************************************************)
(* Program constants.                                                      *)
(***************************************************************************)
BOARD_WIDTH == 9
BOARD_HEIGHT == 10
MIN == -99999
MAX == 99999
RECORD_SIZE == 2097150
MAX_DEPTH == 64
INITIATIVE_BONUS == 3
NULL_MOVE_REDUCTION == 2
BAN_VAL == 29900
MATE_BAND == 30000

KINDS == <<"King", "Advisor", "Bishop", "Knight", "Rook", "Cannon", "Pawn">>

NoChess == [player |-> "None", ct |-> "None"]
Red(ct) == [player |-> "Red", ct |-> ct]
Black(ct) == [player |-> "Black", ct |-> ct]

None == <<>>
Some(x) == <<x>>
is_some(o) == Len(o) = 1
unwrap(o) == o[1]

\* With(e, F) is F(e), with e evaluated once however often F uses it
With(e, F(_)) == CHOOSE y \in {F(x) : x \in {e}} : TRUE

Abs(x) == IF x < 0 THEN -x ELSE x

\* ChessType::value
ct_value(ct) ==
    CASE ct = "King" -> 0 [] ct = "Advisor" -> 1 [] ct = "Bishop" -> 2
      [] ct = "Knight" -> 3 [] ct = "Rook" -> 4 [] ct = "Cannon" -> 5
      [] ct = "Pawn" -> 6

\* ChessType::material_value, and Chess::material_value (0 for Chess::None)
material_value(chess) ==
    CASE chess.ct = "King" -> 10000 [] chess.ct = "Advisor" -> 20
      [] chess.ct = "Bishop" -> 20 [] chess.ct = "Knight" -> 90
      [] chess.ct = "Rook" -> 200 [] chess.ct = "Cannon" -> 100
      [] chess.ct = "Pawn" -> 10 [] OTHER -> 0

belong_to(chess, player) == chess.player = player

\* Player::next
next(player) == IF player = "Red" THEN "Black" ELSE "Red"

Pos(r, c) == [row |-> r, col |-> c]
up(p, delta) == Pos(p.row - delta, p.col)
down(p, delta) == Pos(p.row + delta, p.col)
left(p, delta) == Pos(p.row, p.col - delta)
right(p, delta) == Pos(p.row, p.col + delta)
flip(p) == Pos(BOARD_HEIGHT - 1 - p.row, BOARD_WIDTH - 1 - p.col)

Mv(player, from, to, chess, capture) ==
    [player |-> player, from |-> from, to |-> to, chess |-> chess, capture |-> capture]

\* Move::with_target
with_target(m, to, capture) == [m EXCEPT !.to = to, !.capture = capture]

\* Move::is_valid
move_is_valid(m) == m.chess # NoChess /\ m.from # m.to

in_board(pos) ==
    pos.row >= 0 /\ pos.row < BOARD_HEIGHT /\ pos.col >= 0 /\ pos.col < BOARD_WIDTH

in_country(row, player) ==
    LET base_row == IF player = "Red" THEN BOARD_HEIGHT - 1 ELSE 0
    IN  Abs(row - base_row) < BOARD_HEIGHT \div 2

in_palace(pos, player) ==
    IF player = "Black"
    THEN pos.row >= 0 /\ pos.row < 3 /\ pos.col >= 3 /\ pos.col < 6
    ELSE pos.row >= 7 /\ pos.row < BOARD_HEIGHT /\ pos.col >= 3 /\ pos.col < 6

(***************************************************************************)
(* Piece-square tables, [row][col] from Red's side, rows and columns       *)
(* numbered from 1 in the tuples below (index row + 1, col + 1).           *)
(***************************************************************************)
KING_VALUE_TABLE == <<
    <<0, 0, 0, 0, 0, 0, 0, 0, 0>>,
    <<0, 0, 0, 0, 0, 0, 0, 0, 0>>,
    <<0, 0, 0, 0, 0, 0, 0, 0, 0>>,
    <<0, 0, 0, 0, 0, 0, 0, 0, 0>>,
    <<0, 0, 0, 0, 0, 0, 0, 0, 0>>,
    <<0, 0, 0, 0, 0, 0, 0, 0, 0>>,
    <<0, 0, 0, 0, 0, 0, 0, 0, 0>>,
    <<0, 0, 0, 1, 1, 1, 0, 0, 0>>,
    <<0, 0, 0, 2, 2, 2, 0, 0, 0>>,
    <<0, 0, 0, 11, 15, 11, 0, 0, 0>> >>

ADVISOR_VALUE_TABLE == <<
    <<0, 0, 0, 0, 0, 0, 0, 0, 0>>,
    <<0, 0, 0, 0, 0, 0, 0, 0, 0>>,
    <<0, 0, 0, 0, 0, 0, 0, 0, 0>>,
    <<0, 0, 0, 0, 0, 0, 0, 0, 0>>,
    <<0, 0, 0, 0, 0, 0, 0, 0, 0>>,
    <<0, 0, 0, 0, 0, 0, 0, 0, 0>>,
    <<0, 0, 0, 0, 0, 0, 0, 0, 0>>,
    <<0, 0, 0, 20, 0, 20, 0, 0, 0>>,
    <<0, 0, 0, 0, 23, 0, 0, 0, 0>>,
    <<0, 0, 0, 20, 0, 20, 0, 0, 0>> >>

BISHOP_VALUE_TABLE == <<
    <<0, 0, 0, 0, 0, 0, 0, 0, 0>>,
    <<0, 0, 0, 0, 0, 0, 0, 0, 0>>,
    <<0, 0, 0, 0, 0, 0, 0, 0, 0>>,
    <<0, 0, 0, 0, 0, 0, 0, 0, 0>>,
    <<0, 0, 0, 0, 0, 0, 0, 0, 0>>,
    <<0, 0, 20, 0, 0, 0, 20, 0, 0>>,
    <<0, 0, 0, 0, 0, 0, 0, 0, 0>>,
    <<18, 0, 0, 0, 23, 0, 0, 0, 18>>,
    <<0, 0, 0, 0, 0, 0, 0, 0, 0>>,
    <<0, 0, 20, 0, 0, 0, 20, 0, 0>> >>

ROOK_VALUE_TABLE == <<
    <<206, 208, 207, 213, 214, 213, 207, 208, 206>>,
    <<206, 212, 209, 216, 233, 216, 209, 212, 206>>,
    <<206, 208, 207, 214, 216, 214, 207, 208, 206>>,
    <<206, 213, 213, 216, 216, 216, 213, 213, 206>>,
    <<208, 211, 211, 214, 215, 214, 211, 211, 208>>,
    <<208, 212, 212, 214, 215, 214, 212, 212, 208>>,
    <<204, 209, 204, 212, 214, 212, 204, 209, 204>>,
    <<198, 208, 204, 212, 212, 212, 204, 208, 198>>,
    <<200, 208, 206, 212, 200, 212, 206, 208, 200>>,
    <<194, 206, 204, 212, 200, 212, 204, 206, 194>> >>

KNIGHT_VALUE_TABLE == <<
    <<90, 90, 90, 96, 90, 96, 90, 90, 90>>,
    <<90, 96, 103, 97, 94, 97, 103, 96, 90>>,
    <<92, 98, 99, 103, 99, 103, 99, 98, 92>>,
    <<93, 108, 100, 107, 100, 107, 100, 108, 93>>,
    <<90, 100, 99, 103, 104, 103, 99, 100, 90>>,
    <<90, 98, 101, 102, 103, 102, 101, 98, 90>>,
    <<92, 94, 98, 95, 98, 95, 98, 94, 92>>,
    <<93, 92, 94, 95, 92, 95, 94, 92, 93>>,
    <<85, 90, 92, 93, 78, 93, 92, 90, 85>>,
    <<88, 85, 90, 88, 90, 88, 90, 85, 88>> >>

CANNON_VALUE_TABLE == <<
    <<100, 100, 96, 91, 90, 91, 96, 100, 100>>,
    <<98, 98, 96, 92, 89, 92, 96, 98, 98>>,
    <<97, 97, 96, 91, 92, 91, 96, 97, 97>>,
    <<96, 99, 99, 98, 100, 98, 99, 99, 96>>,
    <<96, 96, 96, 96, 100, 96, 96, 96, 96>>,
    <<95, 96, 99, 96, 100, 96, 99, 96, 95>>,
    <<96, 96, 96, 96, 96, 96, 96, 96, 96>>,
    <<97, 96, 100, 99, 101, 99, 100, 96, 97>>,
    <<96, 97, 98, 98, 98, 98, 98, 97, 96>>,
    <<96, 96, 97, 99, 99, 99, 97, 96, 96>> >>

PAWN_VALUE_TABLE == <<
    <<9, 9, 9, 11, 13, 11, 9, 9, 9>>,
    <<19, 24, 34, 42, 44, 42, 34, 24, 19>>,
    <<19, 24, 32, 37, 37, 37, 32, 24, 19>>,
    <<19, 23, 27, 29, 30, 29, 27, 23, 19>>,
    <<14, 18, 20, 27, 29, 27, 20, 18, 14>>,
    <<7, 0, 13, 0, 16, 0, 13, 0, 7>>,
    <<7, 0, 7, 0, 15, 0, 7, 0, 7>>,
    <<0, 0, 0, 0, 0, 0, 0, 0, 0>>,
    <<0, 0, 0, 0, 0, 0, 0, 0, 0>>,
    <<0, 0, 0, 0, 0, 0, 0, 0, 0>> >>

\* Board::get_chess_value: the table entry of the piece, Black's square rotated
get_chess_value(pos, chess_type, player) ==
    LET p == IF player = "Black" THEN flip(pos) ELSE pos
        r == p.row + 1
        c == p.col + 1
    IN  CASE chess_type = "King" -> KING_VALUE_TABLE[r][c]
          [] chess_type = "Advisor" -> ADVISOR_VALUE_TABLE[r][c]
          [] chess_type = "Bishop" -> BISHOP_VALUE_TABLE[r][c]
          [] chess_type = "Knight" -> KNIGHT_VALUE_TABLE[r][c]
          [] chess_type = "Rook" -> ROOK_VALUE_TABLE[r][c]
          [] chess_type = "Cannon" -> CANNON_VALUE_TABLE[r][c]
          [] chess_type = "Pawn" -> PAWN_VALUE_TABLE[r][c]

(***************************************************************************)
(* Grid access.                                                            *)
(***************************************************************************)
chess_at(b, pos) == IF in_board(pos) THEN b.chesses[pos.row][pos.col] ELSE NoChess

\* Board::set_chess on the grid (the callers modelled here pass on-board squares)
set_chess(chesses, pos, chess) == [chesses EXCEPT ![pos.row][pos.col] = chess]

EmptyGrid == [r \in 0..(BOARD_HEIGHT - 1) |-> [c \in 0..(BOARD_WIDTH - 1) |-> NoChess]]

\* number of squares strictly between two squares of a row or column that hold a piece
count_chess_between(b, posa, posb) ==
    IF posa.row = posb.row
    THEN LET lo == (IF posa.col < posb.col THEN posa.col ELSE posb.col) + 1
             hi == (IF posb.col > posa.col THEN posb.col ELSE posa.col) - 1
         IN  Cardinality({j \in lo..hi : chess_at(b, Pos(posa.row, j)) # NoChess})
    ELSE IF posa.col = posb.col
    THEN LET lo == (IF posa.row < posb.row THEN posa.row ELSE posb.row) + 1
             hi == (IF posb.row > posa.row THEN posb.row ELSE posa.row) - 1
         IN  Cardinality({i \in lo..hi : chess_at(b, Pos(i, posa.col)) # NoChess})
    ELSE 0

has_chess_between(b, posa, posb) ==
    IF posa.row = posb.row
    THEN LET lo == (IF posa.col < posb.col THEN posa.col ELSE posb.col) + 1
             hi == (IF posb.col > posa.col THEN posb.col ELSE posa.col) - 1
         IN  \E j \in lo..hi : chess_at(b, Pos(posa.row, j)) # NoChess
    ELSE IF posa.col = posb.col
    THEN LET lo == (IF posa.row < posb.row THEN posa.row ELSE posb.row) + 1
             hi == (IF posb.row > posa.row THEN posb.row ELSE posa.row) - 1
         IN  \E i \in lo..hi : chess_at(b, Pos(i, posa.col)) # NoChess
    ELSE FALSE

\* Board::count_chess: the else branch walks the rows of from's column
count_chess(b, from, to) ==
    IF from.row = to.row
    THEN LET lo == (IF from.col < to.col THEN from.col ELSE to.col) + 1
             hi == (IF from.col > to.col THEN from.col ELSE to.col) - 1
         IN  Cardinality({c \in lo..hi : chess_at(b, Pos(from.row, c)) # NoChess})
    ELSE LET lo == (IF from.row < to.row THEN from.row ELSE to.row) + 1
             hi == (IF from.row > to.row THEN from.row ELSE to.row) - 1
         IN  Cardinality({r \in lo..hi : chess_at(b, Pos(r, from.col)) # NoChess})

\* first square of a list of squares that holds the given piece, as an Option
RECURSIVE FirstHolding(_, _, _, _)
FirstHolding(b, chess, squares, k) ==
    IF k > Len(squares) THEN None
    ELSE IF chess_at(b, squares[k]) = chess THEN Some(squares[k])
    ELSE FirstHolding(b, chess, squares, k + 1)

\* the palace squares in the order king_position scans them
PalaceSquares(player) ==
    LET r0 == IF player = "Black" THEN 0 ELSE 7
    IN  [k \in 1..9 |-> Pos(r0 + ((k - 1) \div 3), 3 + ((k - 1) % 3))]

king_position(b, player) ==
    IF player = "Black"
    THEN FirstHolding(b, Black("King"), PalaceSquares("Black"), 1)
    ELSE FirstHolding(b, Red("King"), PalaceSquares("Red"), 1)

king_eye_to_eye(b) ==
    LET ra == king_position(b, "Red")
        rb == king_position(b, "Black")
    IN  IF ~is_some(ra) THEN FALSE
        ELSE IF ~is_some(rb) THEN FALSE
        ELSE IF unwrap(ra).col = unwrap(rb).col
             THEN ~has_chess_between(b, unwrap(ra), unwrap(rb))
             ELSE FALSE

(***************************************************************************)
(* Target generation.                                                      *)
(***************************************************************************)
\* a rook ray: for delta in from..limit-1 { push; if occupied break }
RECURSIVE RookRay(_, _, _, _, _, _)
RookRay(b, base, dr, dc, delta, limit) ==
    IF delta >= limit THEN <<>>
    ELSE LET p == Pos(base.row + dr * delta, base.col + dc * delta)
         IN  IF chess_at(b, p) # NoChess THEN <<p>>
             ELSE <<p>> \o RookRay(b, base, dr, dc, delta + 1, limit)

\* a cannon ray: empty squares up to the screen, then the first piece behind it
RECURSIVE CannonRay(_, _, _, _, _, _, _)
CannonRay(b, base, dr, dc, delta, limit, has_chess) ==
    IF delta >= limit THEN <<>>
    ELSE LET p == Pos(base.row + dr * delta, base.col + dc * delta)
         IN  IF ~has_chess
             THEN IF chess_at(b, p) # NoChess
                  THEN CannonRay(b, base, dr, dc, delta + 1, limit, TRUE)
                  ELSE <<p>> \o CannonRay(b, base, dr, dc, delta + 1, limit, FALSE)
             ELSE IF chess_at(b, p) # NoChess THEN <<p>>
             ELSE CannonRay(b, base, dr, dc, delta + 1, limit, TRUE)

IfEmpty(b, leg, targets) == IF chess_at(b, leg) = NoChess THEN targets ELSE <<>>

generate_move_for_chess_type(b, ct, position_base) ==
    LET pb == position_base
    IN  CASE ct = "King" -> <<up(pb, 1), down(pb, 1), left(pb, 1), right(pb, 1)>>
          [] ct = "Advisor" ->
                <<left(up(pb, 1), 1), right(up(pb, 1), 1),
                  left(down(pb, 1), 1), right(down(pb, 1), 1)>>
          [] ct = "Bishop" ->
                IfEmpty(b, left(up(pb, 1), 1), <<left(up(pb, 2), 2)>>)
                \o IfEmpty(b, right(up(pb, 1), 1), <<right(up(pb, 2), 2)>>)
                \o IfEmpty(b, left(down(pb, 1), 1), <<left(down(pb, 2), 2)>>)
                \o IfEmpty(b, right(down(pb, 1), 1), <<right(down(pb, 2), 2)>>)
          [] ct = "Knight" ->
                (IF b.turn = "Red"
                 THEN IfEmpty(b, up(pb, 1), <<left(up(pb, 2), 1), right(up(pb, 2), 1)>>)
                      \o IfEmpty(b, down(pb, 1), <<left(down(pb, 2), 1), right(down(pb, 2), 1)>>)
                 ELSE IfEmpty(b, down(pb, 1), <<left(down(pb, 2), 1), right(down(pb, 2), 1)>>)
                      \o IfEmpty(b, up(pb, 1), <<left(up(pb, 2), 1), right(up(pb, 2), 1)>>))
                \o IfEmpty(b, left(pb, 1), <<left(up(pb, 1), 2), left(down(pb, 1), 2)>>)
                \o IfEmpty(b, right(pb, 1), <<right(up(pb, 1), 2), right(down(pb, 1), 2)>>)
          [] ct = "Rook" ->
                RookRay(b, pb, -1, 0, 1, pb.row + 1)
                \o RookRay(b, pb, 1, 0, 1, BOARD_HEIGHT - pb.row)
                \o RookRay(b, pb, 0, -1, 1, pb.col + 1)
                \o RookRay(b, pb, 0, 1, 1, BOARD_WIDTH - pb.col)
          [] ct = "Cannon" ->
                CannonRay(b, pb, -1, 0, 1, pb.row + 1, FALSE)
                \o CannonRay(b, pb, 1, 0, 1, BOARD_HEIGHT - pb.row, FALSE)
                \o CannonRay(b, pb, 0, -1, 1, pb.col + 1, FALSE)
                \o CannonRay(b, pb, 0, 1, 1, BOARD_WIDTH - pb.col, FALSE)
          [] ct = "Pawn" ->
                (IF ~in_country(pb.row, b.turn) THEN <<left(pb, 1), right(pb, 1)>> ELSE <<>>)
                \o (IF b.turn = "Black" THEN <<down(pb, 1)>> ELSE <<up(pb, 1)>>)

\* the zone test without the palace and the river
TargetOnBoard(b, ct, target) == in_board(target)

\* the zone test generate_move applies to a target of a piece of kind ct
TargetValid(b, ct, target) ==
    IF ct = "King" \/ ct = "Advisor" THEN in_palace(target, b.turn)
    ELSE IF ct = "Bishop" THEN in_country(target.row, b.turn) /\ in_board(target)
    ELSE in_board(target)

\* the moves generate_move emits for the piece on one square
MovesOfSquare(b, capture_only, position_base) ==
    LET chess == chess_at(b, position_base)
    IN  IF ~belong_to(chess, b.turn) THEN <<>>
        ELSE LET targets == generate_move_for_chess_type(b, chess.ct, position_base)
                 move_base == Mv(b.turn, position_base, position_base, chess, NoChess)
                 Keep(target) ==
                     /\ TargetValid(b, chess.ct, target)
                     /\ ~belong_to(chess_at(b, target), b.turn)
                     /\ (~capture_only \/ chess_at(b, target) # NoChess)
                 kept == SelectSeq(targets, Keep)
             IN  [k \in 1..Len(kept) |-> with_target(move_base, kept[k], chess_at(b, kept[k]))]

\* the moves of the squares lo..hi in the order of the loops of generate_move
\* (concatenation is associative: the squares are joined by halves)
RECURSIVE GenerateBetween(_, _, _, _)
GenerateBetween(b, capture_only, lo, hi) ==
    IF lo > hi THEN <<>>
    ELSE IF lo = hi
    THEN MovesOfSquare(b, capture_only, Pos(lo \div BOARD_WIDTH, lo % BOARD_WIDTH))
    ELSE GenerateBetween(b, capture_only, lo, (lo + hi) \div 2)
         \o GenerateBetween(b, capture_only, (lo + hi) \div 2 + 1, hi)

GenerateFrom(b, capture_only, idx) ==
    GenerateBetween(b, capture_only, idx, BOARD_HEIGHT * BOARD_WIDTH - 1)

\* generate_move that ignores capture_only
generate_move_all(b, capture_only) == GenerateFrom(b, FALSE, 0)

generate_move(b, capture_only) == GenerateFrom(b, capture_only, 0)

(***************************************************************************)
(* Check detection.                                                        *)
(***************************************************************************)
\* some square of the list holds a piece of kind ct of the given player
HoldsEnemy(b, squares, player, ct) ==
    \E k \in 1..Len(squares) :
        /\ belong_to(chess_at(b, squares[k]), player)
        /\ chess_at(b, squares[k]).ct = ct

\* is_checked without the test of the two Kings facing each other
is_checked_without_eye(b, player) ==
    LET kp == king_position(b, player)
    IN  IF ~is_some(kp) THEN TRUE
        ELSE LET pb == unwrap(kp)
                 knights ==
                     IfEmpty(b, up(pb, 1), <<left(up(pb, 2), 1), right(up(pb, 2), 1)>>)
                     \o IfEmpty(b, down(pb, 1), <<left(down(pb, 2), 1), right(down(pb, 2), 1)>>)
                     \o IfEmpty(b, left(pb, 1), <<up(left(pb, 2), 1), down(left(pb, 2), 1)>>)
                     \o IfEmpty(b, right(pb, 1), <<up(right(pb, 2), 1), down(right(pb, 2), 1)>>)
                 pawns == <<left(pb, 1), right(pb, 1),
                            IF player = "Red" THEN up(pb, 1) ELSE down(pb, 1)>>
             IN  IF HoldsEnemy(b, generate_move_for_chess_type(b, "Cannon", pb), next(player), "Cannon")
                 THEN TRUE
                 ELSE IF HoldsEnemy(b, generate_move_for_chess_type(b, "Rook", pb), next(player), "Rook")
                 THEN TRUE
                 ELSE IF HoldsEnemy(b, knights, next(player), "Knight") THEN TRUE
                 ELSE IF HoldsEnemy(b, pawns, next(player), "Pawn") THEN TRUE
                 ELSE FALSE

\* Board::is_checked
is_checked(b, player) ==
    LET kp == king_position(b, player)
    IN  IF ~is_some(kp) THEN TRUE
        ELSE LET pb == unwrap(kp)
                 knights ==
                     IfEmpty(b, up(pb, 1), <<left(up(pb, 2), 1), right(up(pb, 2), 1)>>)
                     \o IfEmpty(b, down(pb, 1), <<left(down(pb, 2), 1), right(down(pb, 2), 1)>>)
                     \o IfEmpty(b, left(pb, 1), <<up(left(pb, 2), 1), down(left(pb, 2), 1)>>)
                     \o IfEmpty(b, right(pb, 1), <<up(right(pb, 2), 1), down(right(pb, 2), 1)>>)
                 pawns == <<left(pb, 1), right(pb, 1),
                            IF player = "Red" THEN up(pb, 1) ELSE down(pb, 1)>>
             IN  IF HoldsEnemy(b, generate_move_for_chess_type(b, "Cannon", pb), next(player), "Cannon")
                 THEN TRUE
                 ELSE IF HoldsEnemy(b, generate_move_for_chess_type(b, "Rook", pb), next(player), "Rook")
                 THEN TRUE
                 ELSE IF HoldsEnemy(b, knights, next(player), "Knight") THEN TRUE
                 ELSE IF HoldsEnemy(b, pawns, next(player), "Pawn") THEN TRUE
                 ELSE king_eye_to_eye(b)

(***************************************************************************)
(* Pseudo-legality.                                                        *)
(***************************************************************************)
is_valid_move(b, mv) ==
    LET from == mv.from
        to == mv.to
        from_chess == chess_at(b, from)
        to_chess == chess_at(b, to)
        row_diff == Abs(to.row - from.row)
        col_diff == Abs(to.col - from.col)
        ct == from_chess.ct
    IN  IF ~in_board(from) \/ ~in_board(to) \/ from = to THEN FALSE
        ELSE IF ~belong_to(from_chess, b.turn) THEN FALSE
        ELSE IF belong_to(to_chess, b.turn) THEN FALSE
        ELSE CASE ct = "King" -> in_palace(to, b.turn) /\ row_diff + col_diff = 1
               [] ct = "Advisor" -> in_palace(to, b.turn) /\ row_diff = 1 /\ col_diff = 1
               [] ct = "Bishop" ->
                    /\ in_country(to.row, b.turn)
                    /\ row_diff = 2
                    /\ col_diff = 2
                    /\ chess_at(b, Pos((from.row + to.row) \div 2, (from.col + to.col) \div 2)) = NoChess
               [] ct = "Knight" ->
                    IF row_diff = 1 /\ col_diff = 2
                    THEN chess_at(b, Pos(from.row, (from.col + to.col) \div 2)) = NoChess
                    ELSE IF row_diff = 2 /\ col_diff = 1
                    THEN chess_at(b, Pos((from.row + to.row) \div 2, from.col)) = NoChess
                    ELSE FALSE
               [] ct = "Rook" ->
                    IF row_diff = 0 \/ col_diff = 0 THEN count_chess(b, from, to) = 0 ELSE FALSE
               [] ct = "Cannon" ->
                    IF row_diff = 0 \/ col_diff = 0
                    THEN IF to_chess = NoChess
                         THEN count_chess(b, from, to) = 0
                         ELSE count_chess(b, from, to) = 1
                    ELSE FALSE
               [] ct = "Pawn" ->
                    LET forward == IF b.turn = "Red" THEN -1 ELSE 1
                    IN  IF to.row = from.row + forward /\ col_diff = 0 THEN TRUE
                        ELSE ~in_country(from.row, b.turn) /\ row_diff = 0 /\ col_diff = 1
               [] OTHER -> FALSE

is_move_valid_for_chess_type(b, ct, from, to) ==
    IF ~in_board(to) THEN FALSE
    ELSE CASE ct = "King" ->
                Abs(from.row - to.row) + Abs(from.col - to.col) = 1 /\ in_palace(to, b.turn)
           [] ct = "Advisor" ->
                Abs(from.row - to.row) = 1 /\ Abs(from.col - to.col) = 1 /\ in_palace(to, b.turn)
           [] ct = "Bishop" ->
                /\ Abs(from.row - to.row) = 2
                /\ Abs(from.col - to.col) = 2
                /\ in_country(to.row, b.turn)
                /\ chess_at(b, Pos((from.row + to.row) \div 2, (from.col + to.col) \div 2)) = NoChess
           [] ct = "Knight" ->
                LET row_diff == Abs(from.row - to.row)
                    col_diff == Abs(from.col - to.col)
                IN  IF ~((row_diff = 1 /\ col_diff = 2) \/ (row_diff = 2 /\ col_diff = 1))
                    THEN FALSE
                    ELSE IF row_diff = 2
                    THEN chess_at(b, Pos((from.row + to.row) \div 2, from.col)) = NoChess
                    ELSE chess_at(b, Pos(from.row, (from.col + to.col) \div 2)) = NoChess
           [] ct = "Rook" ->
                (from.row = to.row \/ from.col = to.col) /\ ~has_chess_between(b, from, to)
           [] ct = "Cannon" ->
                IF from.row = to.row \/ from.col = to.col
                THEN IF chess_at(b, to) = NoChess
                     THEN ~has_chess_between(b, from, to)
                     ELSE count_chess_between(b, from, to) = 1
                ELSE FALSE
           [] ct = "Pawn" ->
                LET forward_ok == IF b.turn = "Red"
                                  THEN to.row = from.row - 1 /\ to.col = from.col
                                  ELSE to.row = from.row + 1 /\ to.col = from.col
                    side_ok == from.row = to.row /\ Abs(from.col - to.col) = 1
                IN  IF in_country(from.row, b.turn) THEN forward_ok
                    ELSE forward_ok \/ side_ok

(***************************************************************************)
(* Zobrist keys (module zobrist of the engine).  Two tables, "zob" and     *)
(* "lock", of one key per (piece, square) and one key for Black to move.   *)
(* A key is a set of bit positions: one private bit above the index bits   *)
(* (so no two different key sets XOR to the same hash: full collisions are *)
(* left out) and a few of the low bits the table index is taken from (so   *)
(* different positions do share table slots).                              *)
(***************************************************************************)
INDEX_BITS == 21
SIDE_KEY == 0

Xor(a, b) == (a \ b) \cup (b \ a)

RECURSIVE BitsOf(_, _)
BitsOf(n, k) ==
    IF n = 0 THEN {}
    ELSE (IF n % 2 = 1 THEN {k} ELSE {}) \cup BitsOf(n \div 2, k + 1)

\* the key number of a piece on a square: 1 .. 14 * 90
KeyId(chess, pos) ==
    1 + (ct_value(chess.ct) + (IF chess.player = "Black" THEN 7 ELSE 0)) * 90
      + pos.row * BOARD_WIDTH + pos.col

KeyBits(table, id) ==
    IF table = "zob"
    THEN {INDEX_BITS + 2 * id} \cup BitsOf((id * 5 + id \div 9) % 8, 0)
    ELSE {INDEX_BITS + 2 * id + 1} \cup BitsOf((id * 3 + id \div 7) % 8, 0)

ZobristKey(table, chess, pos) ==
    IF chess = NoChess THEN {} ELSE KeyBits(table, KeyId(chess, pos))

\* the XOR of a set of keys given by their numbers: a bit is set when an odd
\* number of the keys have it
XorFold(table, ids) ==
    {bit \in UNION {KeyBits(table, id) : id \in ids} :
        Cardinality({id \in ids : bit \in KeyBits(table, id)}) % 2 = 1}

\* Zobristable::calc_chesses
calc_chesses(table, chesses, turn) ==
    XorFold(table,
            {KeyId(chesses[r][c], Pos(r, c)) :
                <<r, c>> \in {rc \in (0..(BOARD_HEIGHT - 1)) \X (0..(BOARD_WIDTH - 1)) :
                                 chesses[rc[1]][rc[2]] # NoChess}}
            \cup (IF turn = "Black" THEN {SIDE_KEY} ELSE {}))

\* Zobristable::apply_move
zobrist_apply_move(table, h, m) ==
    Xor(Xor(Xor(Xor(h, ZobristKey(table, m.chess, m.from)),
                ZobristKey(table, m.chess, m.to)),
            ZobristKey(table, m.capture, m.to)),
        KeyBits(table, SIDE_KEY))

\* Zobristable::undo_move
zobrist_undo_move(table, h, m) == zobrist_apply_move(table, h, m)

(***************************************************************************)
(* Incremental evaluation.                                                 *)
(***************************************************************************)
\* update_value with Red's table read for both sides (no rotation for Black)
update_value_unrotated(b, player, pos, chess, is_add) ==
    IF chess = NoChess THEN b
    ELSE LET val == get_chess_value(pos, chess.ct, "Red") + material_value(chess)
         IN  IF player = "Red"
             THEN [b EXCEPT !.vl_red = IF is_add THEN @ + val ELSE @ - val]
             ELSE [b EXCEPT !.vl_black = IF is_add THEN @ + val ELSE @ - val]

update_value(b, player, pos, chess, is_add) ==
    IF chess = NoChess THEN b
    ELSE LET val == get_chess_value(pos, chess.ct, player) + material_value(chess)
         IN  IF player = "Red"
             THEN [b EXCEPT !.vl_red = IF is_add THEN @ + val ELSE @ - val]
             ELSE [b EXCEPT !.vl_black = IF is_add THEN @ + val ELSE @ - val]

\* the sum update_initial_values accumulates for one side over squares lo..hi
\* (addition is associative: the squares are summed by halves)
RECURSIVE SideValueBetween(_, _, _, _)
SideValueBetween(b, player, lo, hi) ==
    IF lo > hi THEN 0
    ELSE IF lo = hi
    THEN LET pos == Pos(lo \div BOARD_WIDTH, lo % BOARD_WIDTH)
             chess == chess_at(b, pos)
         IN  IF chess.player = player
             THEN get_chess_value(pos, chess.ct, player) + material_value(chess)
             ELSE 0
    ELSE SideValueBetween(b, player, lo, (lo + hi) \div 2)
         + SideValueBetween(b, player, (lo + hi) \div 2 + 1, hi)

\* the sum update_initial_values accumulates for one side over squares idx..89
SideValueFrom(b, player, idx) ==
    SideValueBetween(b, player, idx, BOARD_HEIGHT * BOARD_WIDTH - 1)

update_initial_values(b) ==
    [b EXCEPT !.vl_red = SideValueFrom(b, "Red", 0),
              !.vl_black = SideValueFrom(b, "Black", 0)]

\* evaluate without the bonus of the side to move
evaluate_without_bonus(b, player) ==
    IF player = "Red"
    THEN b.vl_red - b.vl_black
    ELSE b.vl_black - b.vl_red

\* Board::evaluate
evaluate(b, player) ==
    IF player = "Red"
    THEN b.vl_red - b.vl_black + INITIATIVE_BONUS
    ELSE b.vl_black - b.vl_red + INITIATIVE_BONUS

RECURSIVE PlayerScoreBetween(_, _, _, _)
PlayerScoreBetween(b, player, lo, hi) ==
    IF lo > hi THEN 0
    ELSE IF lo = hi
    THEN LET pos == Pos(lo \div BOARD_WIDTH, lo % BOARD_WIDTH)
             chess == chess_at(b, pos)
         IN  IF belong_to(chess, player) THEN get_chess_value(pos, chess.ct, player) ELSE 0
    ELSE PlayerScoreBetween(b, player, lo, (lo + hi) \div 2)
         + PlayerScoreBetween(b, player, (lo + hi) \div 2 + 1, hi)

PlayerScoreFrom(b, player, idx) ==
    PlayerScoreBetween(b, player, idx, BOARD_HEIGHT * BOARD_WIDTH - 1)

get_player_score(b, player) == PlayerScoreFrom(b, player, 0)

(***************************************************************************)
(* The Board.  counter, gen_counter, best_moves_last and select_pos are    *)
(* statistics and UI state no operation modelled here reads; records and   *)
(* history_table hold only their non-empty entries.                        *)
(***************************************************************************)
Push(seq, x) == Append(seq, x)
Pop(seq) == IF Len(seq) = 0 THEN seq ELSE SubSeq(seq, 1, Len(seq) - 1)

EmptyMap == [x \in {} |-> 0]
MapPut(f, k, v) == [x \in (DOMAIN f) \cup {k} |-> IF x = k THEN v ELSE f[x]]

Board_empty ==
    [chesses |-> EmptyGrid, turn |-> "Red",
     move_history |-> <<>>, zobrist_history |-> <<>>, check_history |-> <<>>,
     records |-> EmptyMap, zobrist_value |-> {}, zobrist_value_lock |-> {},
     distance |-> 0,
     killer_table |-> [d \in 0..(MAX_DEPTH - 1) |-> <<None, None>>],
     history_table |-> EmptyMap,
     vl_red |-> 0, vl_black |-> 0]

BackRank == <<"Rook", "Knight", "Bishop", "Advisor", "King", "Advisor", "Bishop", "Knight", "Rook">>

InitGrid ==
    [r \in 0..(BOARD_HEIGHT - 1) |-> [c \in 0..(BOARD_WIDTH - 1) |->
        CASE r = 0 -> Black(BackRank[c + 1])
          [] r = 9 -> Red(BackRank[c + 1])
          [] r = 2 /\ c \in {1, 7} -> Black("Cannon")
          [] r = 7 /\ c \in {1, 7} -> Red("Cannon")
          [] r = 3 /\ c % 2 = 0 -> Black("Pawn")
          [] r = 6 /\ c % 2 = 0 -> Red("Pawn")
          [] OTHER -> NoChess]]

Board_init ==
    LET b0 == update_initial_values([Board_empty EXCEPT !.chesses = InitGrid])
    IN  [b0 EXCEPT !.zobrist_value = calc_chesses("zob", b0.chesses, b0.turn),
                   !.zobrist_value_lock = calc_chesses("lock", b0.chesses, b0.turn)]

\* apply_move that leaves zobrist_value_lock alone
apply_move_without_lock(b, m) ==
    LET chess == chess_at(b, m.from)
        b1 == [b EXCEPT !.zobrist_history = Push(@, b.zobrist_value)]
        b2 == update_value(b1, m.player, m.from, chess, FALSE)
        b3 == [b2 EXCEPT !.chesses = set_chess(@, m.from, NoChess)]
        b4 == IF m.capture # NoChess
              THEN update_value(b3, m.capture.player, m.to, m.capture, FALSE)
              ELSE b3
        b5 == update_value(b4, m.player, m.to, chess, TRUE)
        b6 == [b5 EXCEPT !.chesses = set_chess(@, m.to, chess),
                         !.zobrist_value = zobrist_apply_move("zob", @, m),
                         !.turn = next(m.player)]
    IN  With(b6, LAMBDA moved :
                 [moved EXCEPT !.check_history = Push(@, is_checked(moved, moved.turn))])

apply_move(b, m) ==
    LET chess == chess_at(b, m.from)
        b1 == [b EXCEPT !.zobrist_history = Push(@, b.zobrist_value)]
        b2 == update_value(b1, m.player, m.from, chess, FALSE)
        b3 == [b2 EXCEPT !.chesses = set_chess(@, m.from, NoChess)]
        b4 == IF m.capture # NoChess
              THEN update_value(b3, m.capture.player, m.to, m.capture, FALSE)
              ELSE b3
        b5 == update_value(b4, m.player, m.to, chess, TRUE)
        b6 == [b5 EXCEPT !.chesses = set_chess(@, m.to, chess),
                         !.zobrist_value = zobrist_apply_move("zob", @, m),
                         !.zobrist_value_lock = zobrist_apply_move("lock", @, m),
                         !.turn = next(m.player)]
    IN  With(b6, LAMBDA moved :
                 [moved EXCEPT !.check_history = Push(@, is_checked(moved, moved.turn))])

do_move(b, m) ==
    LET b1 == apply_move(b, m)
    IN  [b1 EXCEPT !.distance = @ + 1, !.move_history = Push(@, m)]

\* undo_move that does not put the captured piece back
undo_move_without_capture(b, m) ==
    LET chess == chess_at(b, m.to)
        b1 == update_value(b, m.player, m.to, chess, FALSE)
        b2 == IF m.capture # NoChess
              THEN update_value(b1, m.capture.player, m.to, m.capture, TRUE)
              ELSE b1
        b3 == update_value(b2, m.player, m.from, chess, TRUE)
    IN  [b3 EXCEPT !.chesses = set_chess(set_chess(@, m.from, chess), m.to, NoChess),
                   !.zobrist_value = zobrist_undo_move("zob", @, m),
                   !.zobrist_value_lock = zobrist_undo_move("lock", @, m),
                   !.turn = m.player,
                   !.zobrist_history = Pop(@),
                   !.check_history = Pop(@),
                   !.distance = @ - 1,
                   !.move_history = Pop(@)]

undo_move(b, m) ==
    LET chess == chess_at(b, m.to)
        b1 == update_value(b, m.player, m.to, chess, FALSE)
        b2 == IF m.capture # NoChess
              THEN update_value(b1, m.capture.player, m.to, m.capture, TRUE)
              ELSE b1
        b3 == update_value(b2, m.player, m.from, chess, TRUE)
    IN  [b3 EXCEPT !.chesses = set_chess(set_chess(@, m.from, chess), m.to, m.capture),
                   !.zobrist_value = zobrist_undo_move("zob", @, m),
                   !.zobrist_value_lock = zobrist_undo_move("lock", @, m),
                   !.turn = m.player,
                   !.zobrist_history = Pop(@),
                   !.check_history = Pop(@),
                   !.distance = @ - 1,
                   !.move_history = Pop(@)]

do_null_move(b) == [b EXCEPT !.turn = next(@), !.distance = @ + 1]

\* undo_null_move that leaves the ply counter where the null move put it
undo_null_move_keep_ply(b) == [b EXCEPT !.turn = next(@)]

undo_null_move(b) == [b EXCEPT !.turn = next(@), !.distance = @ - 1]

null_move_okay(b) == get_player_score(b, b.turn) > 200

\* is_move_legal without its last step, the check test on a copy of the board
is_move_legal_without_check(b, m) ==
    LET chess == chess_at(b, m.from)
    IN  IF ~belong_to(chess, b.turn) THEN FALSE
        ELSE IF belong_to(chess_at(b, m.to), b.turn) THEN FALSE
        ELSE is_move_valid_for_chess_type(b, chess.ct, m.from, m.to)

is_move_legal(b, m) ==
    LET chess == chess_at(b, m.from)
    IN  IF ~belong_to(chess, b.turn) THEN FALSE
        ELSE IF belong_to(chess_at(b, m.to), b.turn) THEN FALSE
        ELSE IF ~is_move_valid_for_chess_type(b, chess.ct, m.from, m.to) THEN FALSE
        ELSE LET complete_move == [m EXCEPT !.capture = chess_at(b, m.to)]
             IN  With(apply_move(b, complete_move), LAMBDA temp_board :
                      ~is_checked(temp_board, b.turn))

(***************************************************************************)
(* FEN.  A string is the sequence of its characters.                       *)
(***************************************************************************)
FEN_MAP(ch) ==
    CASE ch = "k" -> Some(Black("King")) [] ch = "a" -> Some(Black("Advisor"))
      [] ch = "b" -> Some(Black("Bishop")) [] ch = "n" -> Some(Black("Knight"))
      [] ch = "r" -> Some(Black("Rook")) [] ch = "c" -> Some(Black("Cannon"))
      [] ch = "p" -> Some(Black("Pawn"))
      [] ch = "K" -> Some(Red("King")) [] ch = "A" -> Some(Red("Advisor"))
      [] ch = "B" -> Some(Red("Bishop")) [] ch = "N" -> Some(Red("Knight"))
      [] ch = "R" -> Some(Red("Rook")) [] ch = "C" -> Some(Red("Cannon"))
      [] ch = "P" -> Some(Red("Pawn"))
      [] OTHER -> None

(***************************************************************************)
(* Characters.  A string is the sequence of its characters.  A character   *)
(* of printable ASCII is written as itself, tab, line feed, form feed and  *)
(* carriage return as "\t", "\n", "\f" and "\r", and every other character *)
(* (the grave accent among them, which no string here can hold) by its     *)
(* code point, as in "U+0662".  The characters beyond ASCII listed here    *)
(* are those the texts of the specifications are made of.                  *)
(***************************************************************************)
\* the characters of code points 32 to 126, in order
PrintableAscii ==
    <<" ", "!", "\"", "#", "$", "%", "&", "'", "(", ")", "*", "+",
      ",", "-", ".", "/", "0", "1", "2", "3", "4", "5", "6", "7",
      "8", "9", ":", ";", "<", "=", ">", "?", "@", "A", "B", "C",
      "D", "E", "F", "G", "H", "I", "J", "K", "L", "M", "N", "O",
      "P", "Q", "R", "S", "T", "U", "V", "W", "X", "Y", "Z", "[",
      "\\", "]", "^", "_", "U+0060", "a", "b", "c", "d", "e", "f", "g",
      "h", "i", "j", "k", "l", "m", "n", "o", "p", "q", "r", "s",
      "t", "u", "v", "w", "x", "y", "z", "{", "|", "}", "~">>

\* the code points of the characters written by name
NamedCodePoints ==
    <<<<"U+000B", 11>>, <<"U+0085", 133>>, <<"U+00A0", 160>>, <<"U+1680", 5760>>,
      <<"U+2000", 8192>>, <<"U+2001", 8193>>, <<"U+2002", 8194>>, <<"U+2003", 8195>>,
      <<"U+2004", 8196>>, <<"U+2005", 8197>>, <<"U+2006", 8198>>, <<"U+2007", 8199>>,
      <<"U+2008", 8200>>, <<"U+2009", 8201>>, <<"U+200A", 8202>>, <<"U+2028", 8232>>,
      <<"U+2029", 8233>>, <<"U+202F", 8239>>, <<"U+205F", 8287>>, <<"U+3000", 12288>>,
      <<"U+0660", 1632>>, <<"U+0661", 1633>>, <<"U+0662", 1634>>, <<"U+0663", 1635>>,
      <<"U+0664", 1636>>, <<"U+0665", 1637>>, <<"U+0666", 1638>>, <<"U+0667", 1639>>,
      <<"U+0668", 1640>>, <<"U+0669", 1641>>, <<"U+06F0", 1776>>, <<"U+06F1", 1777>>,
      <<"U+06F2", 1778>>, <<"U+06F3", 1779>>, <<"U+06F4", 1780>>, <<"U+06F5", 1781>>,
      <<"U+06F6", 1782>>, <<"U+06F7", 1783>>, <<"U+06F8", 1784>>, <<"U+06F9", 1785>>,
      <<"U+0966", 2406>>, <<"U+0967", 2407>>, <<"U+0968", 2408>>, <<"U+0969", 2409>>,
      <<"U+096A", 2410>>, <<"U+096B", 2411>>, <<"U+096C", 2412>>, <<"U+096D", 2413>>,
      <<"U+096E", 2414>>, <<"U+096F", 2415>>, <<"U+FF10", 65296>>, <<"U+FF11", 65297>>,
      <<"U+FF12", 65298>>, <<"U+FF13", 65299>>, <<"U+FF14", 65300>>, <<"U+FF15", 65301>>,
      <<"U+FF16", 65302>>, <<"U+FF17", 65303>>, <<"U+FF18", 65304>>, <<"U+FF19", 65305>>,
      <<"U+1D7CE", 120782>>, <<"U+1D7CF", 120783>>, <<"U+1D7D0", 120784>>, <<"U+1D7D1", 120785>>,
      <<"U+1D7D2", 120786>>, <<"U+1D7D3", 120787>>, <<"U+1D7D4", 120788>>, <<"U+1D7D5", 120789>>,
      <<"U+1D7D6", 120790>>, <<"U+1D7D7", 120791>>, <<"U+00B2", 178>>, <<"U+00B3", 179>>,
      <<"U+00B9", 185>>, <<"U+00BC", 188>>, <<"U+00BD", 189>>, <<"U+00BE", 190>>,
      <<"U+2160", 8544>>, <<"U+2161", 8545>>, <<"U+2162", 8546>>, <<"U+2163", 8547>>,
      <<"U+2460", 9312>>, <<"U+3007", 12295>>, <<"U+00E9", 233>>, <<"U+4E2D", 20013>>>>

\* char as u32
code_point(ch) ==
    CASE ch = "\t" -> 9 [] ch = "\n" -> 10 [] ch = "\f" -> 12 [] ch = "\r" -> 13
      [] \E k \in 1..Len(NamedCodePoints) : NamedCodePoints[k][1] = ch ->
            NamedCodePoints[CHOOSE k \in 1..Len(NamedCodePoints) : NamedCodePoints[k][1] = ch][2]
      [] OTHER -> 31 + (CHOOSE k \in 1..Len(PrintableAscii) : PrintableAscii[k] = ch)

\* the bytes of a character in a str (UTF-8)
utf8(ch) ==
    With(code_point(ch), LAMBDA c :
        IF c < 128 THEN <<c>>
        ELSE IF c < 2048 THEN <<192 + (c \div 64), 128 + (c % 64)>>
        ELSE IF c < 65536
        THEN <<224 + (c \div 4096), 128 + ((c \div 64) % 64), 128 + (c % 64)>>
        ELSE <<240 + (c \div 262144), 128 + ((c \div 4096) % 64),
               128 + ((c \div 64) % 64), 128 + (c % 64)>>)

\* str::as_bytes
RECURSIVE as_bytes(_)
as_bytes(str) == IF Len(str) = 0 THEN <<>> ELSE utf8(Head(str)) \o as_bytes(Tail(str))

\* str::split_at(mid), which panics (None) when byte mid is past the end or
\* inside a character
split_at(str, mid) ==
    LET cuts == {k \in 0..Len(str) : Len(as_bytes(SubSeq(str, 1, k))) = mid}
    IN  IF cuts = {} THEN None
        ELSE With(CHOOSE k \in cuts : TRUE, LAMBDA k :
                  Some(<<SubSeq(str, 1, k), SubSeq(str, k + 1, Len(str))>>))

DigitChars == <<"0", "1", "2", "3", "4", "5", "6", "7", "8", "9">>

AsciiDigits == {DigitChars[d] : d \in 1..10}

\* the decimal digits beyond ASCII (general category Nd): the \d of a pattern
\* matches them, and the ASCII digits
OtherDecimalDigits ==
    {"U+0660", "U+0661", "U+0662", "U+0663", "U+0664", "U+0665", "U+0666", "U+0667",
     "U+0668", "U+0669", "U+06F0", "U+06F1", "U+06F2", "U+06F3", "U+06F4", "U+06F5",
     "U+06F6", "U+06F7", "U+06F8", "U+06F9", "U+0966", "U+0967", "U+0968", "U+0969",
     "U+096A", "U+096B", "U+096C", "U+096D", "U+096E", "U+096F", "U+FF10", "U+FF11",
     "U+FF12", "U+FF13", "U+FF14", "U+FF15", "U+FF16", "U+FF17", "U+FF18", "U+FF19",
     "U+1D7CE", "U+1D7CF", "U+1D7D0", "U+1D7D1", "U+1D7D2", "U+1D7D3", "U+1D7D4", "U+1D7D5",
     "U+1D7D6", "U+1D7D7"}

\* the numeric characters that are no decimal digits (Nl and No)
OtherNumerics ==
    {"U+00B2", "U+00B3", "U+00B9", "U+00BC", "U+00BD", "U+00BE", "U+2160", "U+2161",
     "U+2162", "U+2163", "U+2460", "U+3007"}

Numerics == AsciiDigits \cup OtherDecimalDigits \cup OtherNumerics

\* \d of the regex crate
is_decimal_digit(ch) == ch \in AsciiDigits \cup OtherDecimalDigits

\* char::is_numeric
is_numeric(ch) == ch \in Numerics

\* char::to_digit(10): the value of an ASCII digit, None for any other character
to_digit(ch) ==
    IF ch \in AsciiDigits THEN Some((CHOOSE d \in 1..10 : DigitChars[d] = ch) - 1) ELSE None

\* the characters of the White_Space property, which str::trim removes
WhiteSpace ==
    {"\t", "\n", "U+000B", "\f", "\r", " ",
     "U+0085", "U+00A0", "U+1680", "U+2000", "U+2001", "U+2002", "U+2003", "U+2004",
     "U+2005", "U+2006", "U+2007", "U+2008", "U+2009", "U+200A", "U+2028", "U+2029",
     "U+202F", "U+205F", "U+3000"}

\* str::split: the pieces of a string between occurrences of a separator,
\* piece i lying between the (i-1)-th and the i-th occurrence
split(str, sep) ==
    LET seps == {k \in 1..Len(str) : str[k] = sep}
        cut(i) == CHOOSE k \in seps : Cardinality({j \in seps : j < k}) = i - 1
        n == Cardinality(seps) + 1
        lo(i) == IF i = 1 THEN 1 ELSE cut(i - 1) + 1
        hi(i) == IF i = n THEN Len(str) ELSE cut(i) - 1
    IN  [i \in 1..n |-> SubSeq(str, lo(i), hi(i))]

\* one rank of a FEN: the inner loop of from_fen
RECURSIVE FenRow(_, _, _, _, _)
FenRow(chesses, row, i, j, k) ==
    IF k > Len(row) THEN chesses
    ELSE IF is_numeric(row[k])
    THEN FenRow(chesses, row, i, j + unwrap(to_digit(row[k])), k + 1)
    ELSE With(IF is_some(FEN_MAP(row[k]))
              THEN set_chess(chesses, Pos(i, j), unwrap(FEN_MAP(row[k])))
              ELSE chesses,
              LAMBDA placed : FenRow(placed, row, i, j + 1, k + 1))

\* the outer loop of from_fen over the ranks lo..hi (the ranks are filled in
\* order: the first half, then the second half on top of it)
RECURSIVE FenRowsBetween(_, _, _, _)
FenRowsBetween(chesses, rows, lo, hi) ==
    IF lo > hi THEN chesses
    ELSE IF lo = hi THEN FenRow(chesses, rows[lo + 1], lo, 0, 1)
    ELSE With(FenRowsBetween(chesses, rows, lo, (lo + hi) \div 2),
              LAMBDA filled : FenRowsBetween(filled, rows, (lo + hi) \div 2 + 1, hi))

FenRows(chesses, rows, i) == FenRowsBetween(chesses, rows, i, Len(rows) - 1)

\* from_fen that hashes the grid before it reads the side to move
from_fen_red_hash(fen) ==
    With(split(fen, " "), LAMBDA parts :
    With(split(parts[1], "/"), LAMBDA rows :
    With(IF parts[2] = <<"b">> THEN "Black" ELSE "Red", LAMBDA turn :
        With(FenRows(EmptyGrid, rows, 0), LAMBDA chesses :
        With([Board_empty EXCEPT !.chesses = chesses, !.turn = turn,
                                 !.zobrist_value = calc_chesses("zob", chesses, "Red"),
                                 !.zobrist_value_lock = calc_chesses("lock", chesses, "Red")],
             LAMBDA b1 :
        With([b1 EXCEPT !.zobrist_history = Push(@, b1.zobrist_value),
                        !.check_history = Push(@, is_checked(b1, b1.turn))],
             LAMBDA b2 : update_initial_values(b2)))))))

\* Board::from_fen
from_fen(fen) ==
    With(split(fen, " "), LAMBDA parts :
    With(split(parts[1], "/"), LAMBDA rows :
    With(IF parts[2] = <<"b">> THEN "Black" ELSE "Red", LAMBDA turn :
        With(FenRows(EmptyGrid, rows, 0), LAMBDA chesses :
        With([Board_empty EXCEPT !.chesses = chesses, !.turn = turn,
                                 !.zobrist_value = calc_chesses("zob", chesses, turn),
                                 !.zobrist_value_lock = calc_chesses("lock", chesses, turn)],
             LAMBDA b1 :
        With([b1 EXCEPT !.zobrist_history = Push(@, b1.zobrist_value),
                        !.check_history = Push(@, is_checked(b1, b1.turn))],
             LAMBDA b2 : update_initial_values(b2)))))))

(***************************************************************************)
(* Positions the specifications start from.                                *)
(***************************************************************************)
\* rnbakabnr/9/1c5c1/p1p1p1p1p/9/9/P1P1P1P1P/1C5C1/9/RNBAKABNR w
FEN_START ==
    <<"r", "n", "b", "a", "k", "a", "b", "n", "r", "/", "9", "/", "1", "c", "5", "c", "1", "/", "p", "1", "p", "1", "p", "1", "p", "1", "p", "/", "9", "/", "9", "/", "P", "1", "P", "1", "P", "1", "P", "1", "P", "/", "1", "C", "5", "C", "1", "/", "9", "/", "R", "N", "B", "A", "K", "A", "B", "N", "R", " ", "w">>

\* 4k4/9/9/9/9/9/9/4p4/9/5K3 b
FEN_KILL ==
    <<"4", "k", "4", "/", "9", "/", "9", "/", "9", "/", "9", "/", "9", "/", "9", "/", "4", "p", "4", "/", "9", "/", "5", "K", "3", " ", "b">>

\* 3ak4/9/4b4/4p4/2n6/4P1r2/9/4C4/4A4/3K1R3 w
FEN_MIDDLE ==
    <<"3", "a", "k", "4", "/", "9", "/", "4", "b", "4", "/", "4", "p", "4", "/", "2", "n", "6", "/", "4", "P", "1", "r", "2", "/", "9", "/", "4", "C", "4", "/", "4", "A", "4", "/", "3", "K", "1", "R", "3", " ", "w">>


\* 3k5/9/9/9/4r4/9/9/4R4/9/4K4 w
FEN_PIN ==
    <<"3", "k", "5", "/", "9", "/", "9", "/", "9", "/", "4", "r", "4", "/", "9", "/", "9", "/", "4", "R", "4", "/", "9", "/", "4", "K", "4", " ", "w">>

\* 3ak4/9/4b4/4p4/2n6/4P1r2/9/4C4/4A4/3K1R3 b
FEN_MIDDLE_BLACK ==
    <<"3", "a", "k", "4", "/", "9", "/", "4", "b", "4", "/", "4", "p", "4", "/", "2", "n", "6", "/", "4", "P", "1", "r", "2", "/", "9", "/", "4", "C", "4", "/", "4", "A", "4", "/", "3", "K", "1", "R", "3", " ", "b">>

(***************************************************************************)
(* SearchState: the search data kept apart from the Board.                 *)
(***************************************************************************)
SearchState_new ==
    [move_history |-> <<>>, zobrist_history |-> <<>>, check_history |-> <<>>,
     records |-> EmptyMap, distance |-> 0,
     killer_table |-> [d \in 0..(MAX_DEPTH - 1) |-> <<None, None>>],
     history_table |-> EmptyMap]

\* a Board together with the SearchState working on it
Pair(b, s) == [board |-> b, ss |-> s]

\* SearchState::reset: every field is as SearchState::new leaves it
reset(s) == SearchState_new

\* SearchState::push_move
push_move(s, b, m) ==
    With(apply_move(b, m), LAMBDA b1 :
         Pair(b1,
              [s EXCEPT !.zobrist_history = Push(@, b.zobrist_value),
                        !.check_history = Push(@, is_checked(b1, b1.turn)),
                        !.move_history = Push(@, m),
                        !.distance = @ + 1]))

\* SearchState::pop_move
pop_move(s, b, m) ==
    LET prev_zobrist == IF Len(s.zobrist_history) > 0
                        THEN s.zobrist_history[Len(s.zobrist_history)] ELSE {}
        b1 == undo_move(b, m)
    IN  Pair([b1 EXCEPT !.zobrist_value = prev_zobrist],
             [s EXCEPT !.zobrist_history = Pop(@),
                       !.check_history = Pop(@),
                       !.move_history = Pop(@),
                       !.distance = @ - 1])

\* SearchState::push_null_move
push_null_move(s, b) ==
    Pair(do_null_move(b),
         [s EXCEPT !.zobrist_history = Push(@, b.zobrist_value), !.distance = @ + 1])

\* SearchState::pop_null_move
pop_null_move(s, b) ==
    Pair(undo_null_move(b),
         [s EXCEPT !.zobrist_history = Pop(@), !.distance = @ - 1])

(***************************************************************************)
(* Transposition table, killer moves, history heuristic and move ordering. *)
(* Board carries its own copy of each (used by the UCCI search) and        *)
(* SearchState carries another (used by the GUI search).  A table slot is  *)
(* named by the index bits of the primary hash; slots never written are    *)
(* absent from the map.                                                    *)
(***************************************************************************)
I32_MIN == -2147483647 - 1

\* zobrist_value & (RECORD_SIZE - 1)
record_index(zobrist_value) == zobrist_value \cap BitsOf(RECORD_SIZE - 1, 0)

Record(zobrist_lock, depth, flag, best_move, value) ==
    [zobrist_lock |-> zobrist_lock, depth |-> depth, flag |-> flag,
     best_move |-> best_move, value |-> value]

Found(value, mv) == [value |-> value, mv |-> mv]

\* find_record that answers with the stored score as it is
ProbeRecord_unadjusted(record, distance, alpha, beta, depth) ==
    IF record.depth >= depth
       /\ (\/ record.flag = "Exact"
           \/ (record.flag = "Alpha" /\ record.value <= alpha)
           \/ (record.flag = "Beta" /\ record.value >= beta))
    THEN Found(Some(record.value), record.best_move)
    ELSE Found(None, record.best_move)

\* the part of find_record that follows a successful lock comparison
ProbeRecord(record, distance, alpha, beta, depth) ==
    LET value == IF record.value > 30000 THEN record.value - distance
                 ELSE IF record.value < -30000 THEN record.value + distance
                 ELSE record.value
    IN  IF record.depth >= depth
           /\ (\/ record.flag = "Exact"
               \/ (record.flag = "Alpha" /\ value <= alpha)
               \/ (record.flag = "Beta" /\ value >= beta))
        THEN Found(Some(value), record.best_move)
        ELSE Found(None, record.best_move)

\* Board::find_record that trusts whatever the slot holds
find_record_without_lock(b, alpha, beta, depth) ==
    LET index == record_index(b.zobrist_value)
    IN  IF index \in DOMAIN b.records
        THEN ProbeRecord(b.records[index], b.distance, alpha, beta, depth)
        ELSE Found(None, None)

\* Board::find_record
find_record(b, alpha, beta, depth) ==
    LET index == record_index(b.zobrist_value)
    IN  IF index \in DOMAIN b.records /\ b.records[index].zobrist_lock = b.zobrist_value_lock
        THEN ProbeRecord(b.records[index], b.distance, alpha, beta, depth)
        ELSE Found(None, None)

\* SearchState::find_record
ss_find_record(s, b, alpha, beta, depth) ==
    LET index == record_index(b.zobrist_value)
    IN  IF index \in DOMAIN s.records /\ s.records[index].zobrist_lock = b.zobrist_value_lock
        THEN ProbeRecord(s.records[index], s.distance, alpha, beta, depth)
        ELSE Found(None, None)

\* add_record that writes whatever the slot holds
StoreRecord_always(records, zobrist_value, zobrist_value_lock, distance, depth, value, flag, best_move) ==
    LET stored == IF value > 30000 THEN value + distance
                  ELSE IF value < -30000 THEN value - distance
                  ELSE value
    IN  MapPut(records, record_index(zobrist_value),
               Record(zobrist_value_lock, depth, flag, best_move, stored))

\* the table after add_record, shared by both copies of the function
StoreRecord(records, zobrist_value, zobrist_value_lock, distance, depth, value, flag, best_move) ==
    LET stored == IF value > 30000 THEN value + distance
                  ELSE IF value < -30000 THEN value - distance
                  ELSE value
        index == record_index(zobrist_value)
    IN  IF index \in DOMAIN records /\ records[index].depth > depth
        THEN records
        ELSE MapPut(records, index, Record(zobrist_value_lock, depth, flag, best_move, stored))

\* Board::add_record
add_record(b, depth, value, flag, best_move) ==
    [b EXCEPT !.records = StoreRecord(@, b.zobrist_value, b.zobrist_value_lock, b.distance,
                                      depth, value, flag, best_move)]

\* SearchState::add_record
ss_add_record(s, b, depth, value, flag, best_move) ==
    [s EXCEPT !.records = StoreRecord(@, b.zobrist_value, b.zobrist_value_lock, s.distance,
                                      depth, value, flag, best_move)]

history_index(mv) ==
    (mv.from.row * 9 + mv.from.col) * 90 + (mv.to.row * 9 + mv.to.col)

\* update_killer_move that shifts slot 0 to slot 1 whatever the move is
KillerUpdate_always_shift(killer_table, mv, depth) ==
    IF depth < 0 \/ depth >= MAX_DEPTH THEN killer_table
    ELSE [killer_table EXCEPT ![depth] = <<Some(mv), killer_table[depth][1]>>]

\* update_killer_move on a killer table; depth is the ply cast to usize, so a
\* negative ply is beyond the table like any ply >= MAX_DEPTH
KillerUpdate(killer_table, mv, depth) ==
    IF depth < 0 \/ depth >= MAX_DEPTH THEN killer_table
    ELSE IF is_some(killer_table[depth][1])
    THEN IF unwrap(killer_table[depth][1]) # mv
         THEN [killer_table EXCEPT ![depth] = <<Some(mv), killer_table[depth][1]>>]
         ELSE killer_table
    ELSE [killer_table EXCEPT ![depth] = <<Some(mv), killer_table[depth][2]>>]

\* Board::update_killer_move
update_killer_move(b, mv, depth) ==
    [b EXCEPT !.killer_table = KillerUpdate(@, mv, depth)]

\* SearchState::update_killer_move
ss_update_killer_move(s, mv, depth) ==
    [s EXCEPT !.killer_table = KillerUpdate(@, mv, depth)]

HistoryGet(history_table, mv) ==
    IF history_index(mv) \in DOMAIN history_table THEN history_table[history_index(mv)] ELSE 0

HistoryAdd(history_table, mv, depth) ==
    IF history_index(mv) < 90 * 90
    THEN MapPut(history_table, history_index(mv), HistoryGet(history_table, mv) + depth * depth)
    ELSE history_table

\* Board::update_history
update_history(b, mv, depth) == [b EXCEPT !.history_table = HistoryAdd(@, mv, depth)]

\* SearchState::update_history
ss_update_history(s, mv, depth) == [s EXCEPT !.history_table = HistoryAdd(@, mv, depth)]

\* Board::get_history_score
get_history_score(b, mv) == HistoryGet(b.history_table, mv)

\* SearchState::get_history_score
ss_get_history_score(s, mv) == HistoryGet(s.history_table, mv)

\* the key sort_moves sorts by
SortKey(killer_table, history_table, distance, hash_move, mv) ==
    LET inside == distance >= 0 /\ distance < MAX_DEPTH
        killer1 == IF inside THEN killer_table[distance][1] ELSE None
        killer2 == IF inside THEN killer_table[distance][2] ELSE None
    IN  IF is_some(hash_move) /\ mv = unwrap(hash_move) THEN I32_MIN
        ELSE IF is_some(killer1) /\ mv = unwrap(killer1) THEN I32_MIN + 1
        ELSE IF is_some(killer2) /\ mv = unwrap(killer2) THEN I32_MIN + 2
        ELSE -((IF mv.capture # NoChess
                THEN material_value(mv.capture) * 10 - material_value(mv.chess)
                ELSE 0)
               + HistoryGet(history_table, mv))

\* SortBound: slice::sort_unstable_by_key sorts a list of at most this many
\* moves with the small sort of the standard library (insertion, and from 21
\* moves on networks and merges that keep the order), which leaves moves of
\* equal key in the order they were generated in; of a longer list it leaves
\* moves of equal key in an order that is not determined here
SortBound == 32

\* the moves in ascending order of their keys, equal keys in their given order
SortedBy(moves, keys) ==
    LET n == Len(moves)
        rank(k) == Cardinality({j \in 1..n : keys[j] < keys[k] \/ (keys[j] = keys[k] /\ j < k)}) + 1
    IN  [p \in 1..n |-> moves[CHOOSE k \in 1..n : rank(k) = p]]

\* result holds the moves, each as often as the list does, in ascending order
\* of their keys
IsSortedArrangement(result, moves, keys) ==
    LET n == Len(moves)
        key_of(mv) == keys[CHOOSE k \in 1..n : moves[k] = mv]
    IN  /\ \A k \in 1..n :
              Cardinality({i \in 1..n : result[i] = moves[k]})
                  = Cardinality({j \in 1..n : moves[j] = moves[k]})
        /\ \A i \in 1..(n - 1) : key_of(result[i]) <= key_of(result[i + 1])

\* slice::sort_unstable_by_key: the orders it can leave the list in
SortOutcomes(moves, keys) ==
    IF Len(moves) <= SortBound THEN {SortedBy(moves, keys)}
    ELSE {result \in [1..Len(moves) -> {moves[k] : k \in 1..Len(moves)}] :
             IsSortedArrangement(result, moves, keys)}

\* Board::sort_moves: the orders it can leave moves in
sort_moves(b, moves, hash_move) ==
    With([k \in 1..Len(moves) |->
             SortKey(b.killer_table, b.history_table, b.distance, hash_move, moves[k])],
         LAMBDA keys : SortOutcomes(moves, keys))

\* SearchState::sort_moves: the orders it can leave moves in
ss_sort_moves(s, moves, hash_move) ==
    With([k \in 1..Len(moves) |->
             SortKey(s.killer_table, s.history_table, s.distance, hash_move, moves[k])],
         LAMBDA keys : SortOutcomes(moves, keys))

(***************************************************************************)
(* Repetition.                                                             *)
(***************************************************************************)
\* the loop of rep_status from index i (1-based) downwards; the Board's copy
\* returns when the countdown is exactly 0, the SearchState's when it is <= 0
RECURSIVE RepWalk(_, _, _, _, _, _, _, _, _, _)
RepWalk(move_history, check_history, zobrist_history, zobrist_value, i, self_side, perp_check, opp_perp_check, recur, exact) ==
    IF i < 1 THEN 0
    ELSE IF move_history[i].capture # NoChess THEN 0
    ELSE IF self_side
    THEN LET perp == IF i <= Len(check_history) THEN perp_check /\ check_history[i]
                     ELSE perp_check
             hit == i <= Len(zobrist_history) /\ zobrist_history[i] = zobrist_value
             done == hit /\ (IF exact THEN recur - 1 = 0 ELSE recur - 1 <= 0)
         IN  IF done
             THEN 1 + (IF perp THEN 2 ELSE 0) + (IF opp_perp_check THEN 4 ELSE 0)
             ELSE RepWalk(move_history, check_history, zobrist_history, zobrist_value,
                          i - 1, FALSE, perp, opp_perp_check,
                          IF hit THEN recur - 1 ELSE recur, exact)
    ELSE RepWalk(move_history, check_history, zobrist_history, zobrist_value,
                 i - 1, TRUE, perp_check,
                 IF i <= Len(check_history) THEN opp_perp_check /\ check_history[i]
                 ELSE opp_perp_check,
                 recur, exact)

\* Board::rep_status
rep_status(b, recur) ==
    RepWalk(b.move_history, b.check_history, b.zobrist_history, b.zobrist_value,
            Len(b.move_history), FALSE, TRUE, TRUE, recur, TRUE)

\* SearchState::rep_status
ss_rep_status(s, b, recur) ==
    RepWalk(s.move_history, s.check_history, s.zobrist_history, b.zobrist_value,
            Len(s.move_history), FALSE, TRUE, TRUE, recur, FALSE)

\* rep_value that looks at the other side's perpetual check first
RepValueAt_win_first(distance, status) ==
    IF (status \div 4) % 2 = 1 THEN BAN_VAL - distance
    ELSE IF (status \div 2) % 2 = 1 THEN -BAN_VAL + distance
    ELSE IF distance % 2 = 0 THEN -20 ELSE 20

\* rep_value at a ply
RepValueAt(distance, status) ==
    IF (status \div 2) % 2 = 1 THEN -BAN_VAL + distance
    ELSE IF (status \div 4) % 2 = 1 THEN BAN_VAL - distance
    ELSE IF distance % 2 = 0 THEN -20 ELSE 20

\* Board::rep_value
rep_value(b, status) == RepValueAt(b.distance, status)

\* SearchState::rep_value
ss_rep_value(s, status) == RepValueAt(s.distance, status)

\* SearchState::null_move_okay
ss_null_move_okay(b) == get_player_score(b, b.turn) > 200

(***************************************************************************)
(* The two searches.  Board::alpha_beta_pvs_internal / Board::quies work   *)
(* on the Board alone; SearchState::alpha_beta_pvs_internal / ::quies work *)
(* on a SearchState and a Board.  Both are the same code up to the         *)
(* primitives they call, named here by impl: "Board" or "SearchState".     *)
(* A call of the recursion is a frame; a step runs one frame from where it *)
(* stands to its next recursive call or to its return.                     *)
(***************************************************************************)
search_distance(impl, P) == IF impl = "Board" THEN P.board.distance ELSE P.ss.distance

search_do_move(impl, P, m) ==
    IF impl = "Board" THEN Pair(do_move(P.board, m), P.ss) ELSE push_move(P.ss, P.board, m)

search_undo_move(impl, P, m) ==
    IF impl = "Board" THEN Pair(undo_move(P.board, m), P.ss) ELSE pop_move(P.ss, P.board, m)

search_do_null(impl, P) ==
    IF impl = "Board" THEN Pair(do_null_move(P.board), P.ss) ELSE push_null_move(P.ss, P.board)

search_undo_null(impl, P) ==
    IF impl = "Board" THEN Pair(undo_null_move(P.board), P.ss) ELSE pop_null_move(P.ss, P.board)

search_find(impl, P, alpha, beta, depth) ==
    IF impl = "Board" THEN find_record(P.board, alpha, beta, depth)
    ELSE ss_find_record(P.ss, P.board, alpha, beta, depth)

\* the searches sort with no hash move; the nodes of the model have at most
\* SortBound moves (SortsInOrder), which sort_moves leaves in one order
search_sort(impl, P, moves) ==
    With(moves, LAMBDA generated :
         CHOOSE sorted \in (IF impl = "Board" THEN sort_moves(P.board, generated, None)
                            ELSE ss_sort_moves(P.ss, generated, None)) : TRUE)

search_rep(impl, P) ==
    IF impl = "Board" THEN rep_status(P.board, 1) ELSE ss_rep_status(P.ss, P.board, 1)

search_rep_value(impl, P, status) ==
    IF impl = "Board" THEN rep_value(P.board, status) ELSE ss_rep_value(P.ss, status)

search_null_okay(impl, P) ==
    IF impl = "Board" THEN null_move_okay(P.board) ELSE ss_null_move_okay(P.board)

\* update_killer_move, update_history and add_record of a beta cutoff by move m
search_cutoff(impl, P, m, depth, v) ==
    IF impl = "Board"
    THEN LET b1 == update_killer_move(P.board, m, P.board.distance)
             b2 == update_history(b1, m, depth)
         IN  Pair(add_record(b2, depth, v, "Beta", Some(m)), P.ss)
    ELSE LET s1 == ss_update_killer_move(P.ss, m, P.ss.distance)
             s2 == ss_update_history(s1, m, depth)
         IN  Pair(P.board, ss_add_record(s2, P.board, depth, v, "Beta", Some(m)))

search_add(impl, P, depth, value, flag, best_move) ==
    IF impl = "Board" THEN Pair(add_record(P.board, depth, value, flag, best_move), P.ss)
    ELSE Pair(P.board, ss_add_record(P.ss, P.board, depth, value, flag, best_move))

\* the test both searches make after making a move: the mover's King is attacked
mover_in_check_never(b) == FALSE

mover_in_check(b) == is_checked(b, next(b.turn))

Max(a, b) == IF a > b THEN a ELSE b

Frame(fn, depth, alpha, beta, allow_null) ==
    [fn |-> fn, pc |-> "entry", depth |-> depth, alpha |-> alpha, beta |-> beta,
     allow_null |-> allow_null, hash_move |-> None, hash_move_searched |-> FALSE,
     moves |-> <<>>, i |-> 1, count |-> 0, best_move |-> None, best_value |-> MIN,
     hash_flag |-> "Alpha", new_depth |-> 0]

\* what a step of a frame comes to: the frame returns, calls, or goes on
Return(P, value, mv, tt) ==
    [kind |-> "return", P |-> P, value |-> value, mv |-> mv, tt |-> tt]
Call(P, frame, child) == [kind |-> "call", P |-> P, frame |-> frame, child |-> child]
Stay(P, frame) == [kind |-> "stay", P |-> P, frame |-> frame]

(***************************************************************************)
(* alpha_beta_pvs_internal, piece by piece.  f is the frame of the call,   *)
(* P the Board and SearchState it runs on, ret what the call it made last  *)
(* returned.                                                               *)
(***************************************************************************)
\* from the loop over the sorted moves on: generate_move, sort_moves and the
\* initial best_move / best_value
pvs_begin_loop(impl, P, f) ==
    LET best_value == IF f.hash_move_searched /\ f.alpha > MIN THEN f.alpha ELSE MIN
    IN  Stay(P, [f EXCEPT !.pc = "loop",
                          !.moves = search_sort(impl, P, generate_move(P.board, FALSE)),
                          !.i = 1,
                          !.count = 0,
                          !.best_move = IF f.hash_move_searched THEN f.hash_move ELSE None,
                          !.best_value = best_value,
                          !.hash_flag = "Alpha"])

\* the probe of the table, the repetition test, the hand-over to quies at
\* depth 0 and the null move
pvs_entry(impl, P, f) ==
    LET found == search_find(impl, P, f.alpha, f.beta, f.depth)
        rep == IF search_distance(impl, P) > 0 THEN search_rep(impl, P) ELSE 0
        g == [f EXCEPT !.hash_move = found.mv]
    IN  IF is_some(found.value) THEN Return(P, unwrap(found.value), found.mv, TRUE)
        ELSE IF rep > 0 THEN Return(P, search_rep_value(impl, P, rep), None, FALSE)
        ELSE IF f.depth = 0
        THEN Call(P, [g EXCEPT !.pc = "after_quies"], Frame("quies", 0, f.alpha, f.beta, FALSE))
        ELSE IF /\ f.allow_null
                /\ f.depth >= 3
                /\ ~is_checked(P.board, P.board.turn)
                /\ search_null_okay(impl, P)
        THEN Call(search_do_null(impl, P), [g EXCEPT !.pc = "after_null"],
                  Frame("pvs", f.depth - NULL_MOVE_REDUCTION - 1, -f.beta, -f.beta + 1, FALSE))
        ELSE Stay(P, [g EXCEPT !.pc = "hash"])

\* return (self.quies(alpha, beta), None)
pvs_after_quies(impl, P, f, ret) == Return(P, ret.value, None, FALSE)

\* after the search below the null move
pvs_after_null(impl, P, f, ret) ==
    With(search_undo_null(impl, P), LAMBDA P1 :
         IF -ret.value >= f.beta THEN Return(P1, f.beta, None, FALSE)
         ELSE Stay(P1, [f EXCEPT !.pc = "hash"]))

\* the hash move is tried first when it is pseudo-legal and legal
pvs_hash(impl, P, f) ==
    IF is_some(f.hash_move) /\ is_valid_move(P.board, unwrap(f.hash_move))
    THEN LET hm == unwrap(f.hash_move)
         IN  With(search_do_move(impl, P, hm), LAMBDA P1 :
                  IF ~mover_in_check(P1.board)
                  THEN Call(P1, [f EXCEPT !.pc = "after_hash", !.hash_move_searched = TRUE],
                            Frame("pvs", f.depth - 1, -f.beta, -f.alpha, TRUE))
                  ELSE With(search_undo_move(impl, P1, hm), LAMBDA P2 :
                            pvs_begin_loop(impl, P2, f)))
    ELSE pvs_begin_loop(impl, P, f)

\* after the search below the hash move
pvs_after_hash(impl, P, f, ret) ==
    LET hm == unwrap(f.hash_move)
        v == -ret.value
    IN  With(search_undo_move(impl, P, hm), LAMBDA P1 :
             IF v >= f.beta
             THEN Return(search_cutoff(impl, P1, hm, f.depth, v), v, Some(hm), FALSE)
             ELSE pvs_begin_loop(impl, P1, [f EXCEPT !.alpha = Max(f.alpha, v)]))

\* the flag of the record written when the loop over the moves has ended
pvs_final_flag(impl, f) ==
    IF impl = "Board" THEN f.hash_flag
    ELSE IF f.best_value > f.alpha THEN "Exact" ELSE "Alpha"

\* one turn of the loop over the moves, up to the recursive call, or the end
\* of the loop
pvs_loop(impl, P, f) ==
    IF f.i > Len(f.moves)
    THEN IF f.count = 0
         THEN Return(P, MIN + search_distance(impl, P), None, FALSE)
         ELSE Return(search_add(impl, P, f.depth, f.best_value, pvs_final_flag(impl, f),
                                f.best_move),
                     f.best_value, f.best_move, FALSE)
    ELSE LET m == f.moves[f.i]
             count == f.count + 1
         IN  IF f.hash_move_searched /\ m = unwrap(f.hash_move)
             THEN Stay(P, [f EXCEPT !.i = @ + 1])
             ELSE With(search_do_move(impl, P, m), LAMBDA P1 :
                  IF mover_in_check(P1.board)
                  THEN Stay(search_undo_move(impl, P1, m), [f EXCEPT !.i = @ + 1])
                  ELSE With(IF is_checked(P1.board, P1.board.turn) THEN f.depth ELSE f.depth - 1,
                            LAMBDA new_depth :
                       IF count = 1 /\ ~f.hash_move_searched
                       THEN Call(P1, [f EXCEPT !.count = count, !.new_depth = new_depth,
                                               !.pc = "after_full"],
                                 Frame("pvs", new_depth, -f.beta, -f.alpha, TRUE))
                       ELSE Call(P1, [f EXCEPT !.count = count, !.new_depth = new_depth,
                                               !.pc = "after_scout"],
                                 Frame("pvs", new_depth, -(f.alpha + 1), -f.alpha, FALSE))))

\* the move of this turn of the loop has the value v: undo it and take stock
pvs_take(impl, P, f, v) ==
    LET m == f.moves[f.i]
        g == [f EXCEPT !.pc = "loop", !.i = @ + 1]
    IN  With(search_undo_move(impl, P, m), LAMBDA P1 :
             IF v > f.best_value
             THEN IF v >= f.beta
                  THEN Return(search_cutoff(impl, P1, m, f.depth, v), v, Some(m), FALSE)
                  ELSE IF v > f.alpha
                  THEN Stay(P1, [g EXCEPT !.best_value = v, !.alpha = v,
                                          !.best_move = Some(m), !.hash_flag = "Exact"])
                  ELSE Stay(P1, [g EXCEPT !.best_value = v])
             ELSE Stay(P1, g))

\* after the zero-window search of a move
pvs_after_scout(impl, P, f, ret) ==
    LET scout == -ret.value
    IN  IF scout > f.alpha /\ scout < f.beta
        THEN Call(P, [f EXCEPT !.pc = "after_full"],
                  Frame("pvs", f.new_depth, -f.beta, -f.alpha, TRUE))
        ELSE pvs_take(impl, P, f, scout)

\* after the full-window search of a move
pvs_after_full(impl, P, f, ret) == pvs_take(impl, P, f, -ret.value)

(***************************************************************************)
(* quies, piece by piece.                                                  *)
(***************************************************************************)
quies_entry(impl, P, f) ==
    LET b == P.board
        v == evaluate(b, b.turn)
        moves == IF is_checked(b, next(b.turn)) THEN generate_move(b, FALSE)
                 ELSE generate_move(b, TRUE)
    IN  IF search_distance(impl, P) > MAX_DEPTH THEN Return(P, v, None, FALSE)
        ELSE IF v >= f.beta THEN Return(P, f.beta, None, FALSE)
        ELSE Stay(P, [f EXCEPT !.pc = "qloop", !.alpha = Max(f.alpha, v),
                               !.moves = search_sort(impl, P, moves), !.i = 1])

quies_loop(impl, P, f) ==
    IF f.i > Len(f.moves) THEN Return(P, f.alpha, None, FALSE)
    ELSE LET m == f.moves[f.i]
         IN  With(search_do_move(impl, P, m), LAMBDA P1 :
                  IF mover_in_check(P1.board)
                  THEN Stay(search_undo_move(impl, P1, m), [f EXCEPT !.i = @ + 1])
                  ELSE Call(P1, [f EXCEPT !.pc = "after_qchild"],
                            Frame("quies", 0, -f.beta, -f.alpha, FALSE)))

quies_after_child(impl, P, f, ret) ==
    LET v == -ret.value
    IN  With(search_undo_move(impl, P, f.moves[f.i]), LAMBDA P1 :
             IF v >= f.beta THEN Return(P1, f.beta, None, FALSE)
             ELSE Stay(P1, [f EXCEPT !.pc = "qloop", !.alpha = Max(f.alpha, v), !.i = @ + 1]))

(***************************************************************************)
(* The state of the program.                                               *)
(*   board  the Board of the host (UCCIEngine.board, or the GUI's game)    *)
(*   ss     the SearchState working on the board                           *)
(*   held   the moves applied and not yet undone, with how they were made  *)
(*   last   the operation performed last and what it was given             *)
(*   stack  the frames of the running search, the root call first          *)
(*   ret    what the frame that returned last has returned                 *)
(*   run    the iterative_deepening call: who runs it, where it stands,    *)
(*          the Board and SearchState as they were at the call, the result *)
(***************************************************************************)
VARIABLES board, ss, held, last, stack, ret, run

vars == <<board, ss, held, last, stack, ret, run>>

NoRet == [value |-> 0, mv |-> None, tt |-> FALSE]

IdleRun(impl) ==
    [status |-> "idle", impl |-> impl, max_depth |-> 0, depth |-> 0, gos |-> 0, used |-> 0,
     best_value |-> 0, best_move |-> None, root |-> Board_empty, root_ss |-> SearchState_new,
     value |-> 0, mv |-> None, tt |-> FALSE, output |-> ""]

NoSearch ==
    /\ stack = <<>>
    /\ ret = NoRet
    /\ run = IdleRun("Board")

\* bounds of the model
MaxPly == 2
MaxDrift == 2

Range(seq) == {seq[i] : i \in 1..Len(seq)}

Core(b) ==
    [chesses |-> b.chesses, turn |-> b.turn,
     zobrist_value |-> b.zobrist_value, zobrist_value_lock |-> b.zobrist_value_lock,
     vl_red |-> b.vl_red, vl_black |-> b.vl_black]

Generated(b) == Range(generate_move(b, FALSE))

NullEntry == Mv("Red", Pos(0, 0), Pos(0, 0), NoChess, NoChess)

\* The hosts make moves in a fixed order: the UCCI position command applies its
\* moves with apply_move before any search, the Board search then works with
\* do_move, undo_move and null moves, and the GUI works with push_move and
\* pop_move only.
HeldKinds == {held[i].kind : i \in 1..Len(held)}

InitMoves ==
    /\ board \in {Board_init, from_fen(FEN_KILL), from_fen(FEN_MIDDLE)}
    /\ ss = SearchState_new
    /\ held = <<>>
    /\ last = [op |-> "init", capture |-> FALSE, pre |-> Core(board)]
    /\ NoSearch

\* Board::apply_move on a generated move
ApplyMove ==
    /\ Len(held) < MaxPly
    /\ HeldKinds \subseteq {"apply"}
    /\ \E m \in Generated(board) :
          /\ board' = apply_move(board, m)
          /\ held' = Push(held, [kind |-> "apply", m |-> m, pre |-> Core(board)])
          /\ last' = [op |-> "apply_move", capture |-> m.capture # NoChess, pre |-> Core(board)]
    /\ UNCHANGED <<ss, stack, ret, run>>

\* Board::do_move on a generated move
DoMove ==
    /\ Len(held) < MaxPly
    /\ HeldKinds \subseteq {"apply", "do", "null"}
    /\ \E m \in Generated(board) :
          /\ board' = do_move(board, m)
          /\ held' = Push(held, [kind |-> "do", m |-> m, pre |-> Core(board)])
          /\ last' = [op |-> "do_move", capture |-> m.capture # NoChess, pre |-> Core(board)]
    /\ UNCHANGED <<ss, stack, ret, run>>

\* Board::undo_move of the move applied last
UndoMove ==
    /\ Len(held) > 0
    /\ held[Len(held)].kind \in {"apply", "do"}
    /\ board.distance > -MaxDrift
    /\ board' = undo_move(board, held[Len(held)].m)
    /\ held' = Pop(held)
    /\ last' = [op |-> "undo_move", capture |-> held[Len(held)].m.capture # NoChess,
                pre |-> held[Len(held)].pre]
    /\ UNCHANGED <<ss, stack, ret, run>>

\* SearchState::reset after pushes: the Board keeps its position, and the
\* moves pushed before (held as "forgotten" from here on) are followed no
\* further
Reset ==
    /\ HeldKinds = {"push"}
    /\ ss' = reset(ss)
    /\ held' = [i \in 1..Len(held) |->
                   IF held[i].kind = "push" THEN [held[i] EXCEPT !.kind = "forgotten"]
                   ELSE held[i]]
    /\ last' = [op |-> "reset", capture |-> FALSE, pre |-> Core(board)]
    /\ UNCHANGED <<board, stack, ret, run>>

\* SearchState::push_move on a generated move
PushMove ==
    /\ Len(held) < MaxPly
    /\ HeldKinds \subseteq {"push", "null"}
    /\ \E m \in Generated(board) :
          /\ \E out \in {push_move(ss, board, m)} : board' = out.board /\ ss' = out.ss
          /\ held' = Push(held, [kind |-> "push", m |-> m, pre |-> Core(board)])
          /\ last' = [op |-> "push_move", capture |-> m.capture # NoChess, pre |-> Core(board)]
    /\ UNCHANGED <<stack, ret, run>>

\* SearchState::pop_move of the move pushed last
PopMove ==
    /\ Len(held) > 0
    /\ held[Len(held)].kind = "push"
    /\ board.distance > -MaxDrift
    /\ \E out \in {pop_move(ss, board, held[Len(held)].m)} : board' = out.board /\ ss' = out.ss
    /\ held' = Pop(held)
    /\ last' = [op |-> "pop_move", capture |-> held[Len(held)].m.capture # NoChess,
                pre |-> held[Len(held)].pre]
    /\ UNCHANGED <<stack, ret, run>>

\* Board::do_null_move
DoNullMove ==
    /\ Len(held) < MaxPly
    /\ (Len(held) > 0 => held[Len(held)].kind # "null")
    /\ board' = do_null_move(board)
    /\ held' = Push(held, [kind |-> "null", m |-> NullEntry, pre |-> Core(board)])
    /\ last' = [op |-> "do_null_move", capture |-> FALSE, pre |-> Core(board)]
    /\ UNCHANGED <<ss, stack, ret, run>>

\* Board::undo_null_move
UndoNullMove ==
    /\ Len(held) > 0
    /\ held[Len(held)].kind = "null"
    /\ board' = undo_null_move(board)
    /\ held' = Pop(held)
    /\ last' = [op |-> "undo_null_move", capture |-> FALSE, pre |-> held[Len(held)].pre]
    /\ UNCHANGED <<ss, stack, ret, run>>

NextMoves ==
    \/ ApplyMove
    \/ DoMove
    \/ UndoMove
    \/ PushMove
    \/ PopMove
    \/ Reset
    \/ DoNullMove
    \/ UndoNullMove

SpecMoves == InitMoves /\ [][NextMoves]_vars

(***************************************************************************)
(* Claims about the move primitives, checked under SpecMoves.              *)
(***************************************************************************)
HashOf(b) ==
    [zobrist_value |-> calc_chesses("zob", b.chesses, b.turn),
     zobrist_value_lock |-> calc_chesses("lock", b.chesses, b.turn)]

HashIn(b) ==
    [zobrist_value |-> b.zobrist_value, zobrist_value_lock |-> b.zobrist_value_lock]

\* C1: undo_move right after the apply_move of a generated move gives back the
\* grid, the side to move, both hashes and both sides' evaluation sums as they
\* were before the move was applied.
C1_UndoRestores ==
    last.op = "undo_move" => Core(board) = last.pre

\* a capturing move has been applied and undone, with moves still held below it
C1_Witness ==
    /\ last.op = "undo_move"
    /\ last.capture
    /\ Len(held) = 1
    /\ Core(board) = last.pre

\* C2: after any sequence of applying and undoing generated moves (apply_move,
\* do_move, undo_move, push_move, pop_move, with no null move pending), the
\* primary hash and the lock equal the hashes computed from scratch from the
\* grid and the side to move.
C2_HashFromScratch ==
    "null" \notin HeldKinds => HashIn(board) = HashOf(board)

\* a capture was pushed and popped on top of another move, and the hashes match
C2_Witness ==
    /\ last.op \in {"undo_move", "pop_move"}
    /\ last.capture
    /\ Len(held) = 1
    /\ HashIn(board) = HashOf(board)

\* C3: after any sequence of applying and undoing generated moves, each side's
\* incremental sum equals the sum of material and piece-square values of its
\* pieces computed from scratch, Black's squares read rotated by 180 degrees.
C3_ValuesFromScratch ==
    /\ board.vl_red = SideValueFrom(board, "Red", 0)
    /\ board.vl_black = SideValueFrom(board, "Black", 0)

\* a capture by Black stands applied on top of another move, and the sums match
C3_Witness ==
    /\ last.op \in {"apply_move", "do_move", "push_move"}
    /\ last.capture
    /\ board.turn = "Red"
    /\ Len(held) = 2
    /\ board.vl_red = SideValueFrom(board, "Red", 0)
    /\ board.vl_black = SideValueFrom(board, "Black", 0)

\* C9: in every state the apply, undo and null-move primitives reach, both
\* hashes are the hashes of the current grid and side to move.
C9_HashIsFunctionOfGridAndTurn ==
    HashIn(board) = HashOf(board)
(***************************************************************************)
(* The move rules as functions of a position: the generator and the two    *)
(* legality tests are applied to positions loaded from FEN.                *)
(***************************************************************************)
Squares == {Pos(r, c) : r \in 0..(BOARD_HEIGHT - 1), c \in 0..(BOARD_WIDTH - 1)}

RulePositions ==
    {Board_init, from_fen(FEN_KILL), from_fen(FEN_MIDDLE), from_fen(FEN_MIDDLE_BLACK),
     from_fen(FEN_PIN)}

InitRules ==
    /\ board \in RulePositions
    /\ ss = SearchState_new
    /\ held = <<>>
    /\ last = [op |-> "init", capture |-> FALSE, pre |-> Core(board)]
    /\ NoSearch

\* Board::generate_move(false)
GenerateMove ==
    /\ last.op = "init"
    /\ last' = [op |-> "generate_move", moves |-> generate_move(board, FALSE)]
    /\ UNCHANGED <<board, ss, held, stack, ret, run>>

\* Board::is_move_legal on the move between two squares, built as the hosts
\* build it: player = side to move, chess and capture read from the board
IsMoveLegal ==
    /\ last.op = "init"
    /\ \E from \in Squares, to \in Squares :
          LET m == Mv(board.turn, from, to, chess_at(board, from), chess_at(board, to))
          IN  last' = [op |-> "is_move_legal", m |-> m, legal |-> is_move_legal(board, m)]
    /\ UNCHANGED <<board, ss, held, stack, ret, run>>

NextRules ==
    \/ GenerateMove
    \/ IsMoveLegal

SpecRules == InitRules /\ [][NextRules]_vars

\* C7: every move generate_move(false) emits passes is_valid_move in the
\* position, is a move of the side to move, names the piece on its from square
\* and names as capture what stands on its to square.
C7_GeneratedMovesAreValid ==
    last.op = "generate_move" =>
        \A k \in 1..Len(last.moves) :
            LET m == last.moves[k]
            IN  /\ is_valid_move(board, m)
                /\ m.player = board.turn
                /\ m.chess = chess_at(board, m.from)
                /\ m.capture = chess_at(board, m.to)

\* the generator has emitted the moves of a position, a capture among them
C7_Witness ==
    /\ last.op = "generate_move"
    /\ \E k \in 1..Len(last.moves) : last.moves[k].capture # NoChess
    /\ \A k \in 1..Len(last.moves) : is_valid_move(board, last.moves[k])

\* C8: is_move_legal of the move between two squares is true exactly when
\* is_valid_move of it is true and the mover is not in check after it is applied.
C8_LegalIffValidAndSafe ==
    last.op = "is_move_legal" =>
        (last.legal <=>
            (/\ is_valid_move(board, last.m)
             /\ ~is_checked(apply_move(board, last.m), board.turn)))

\* is_move_legal has refused a pseudo-legal move that exposes the mover's King
C8_Witness ==
    /\ last.op = "is_move_legal"
    /\ ~last.legal
    /\ is_valid_move(board, last.m)
    /\ is_checked(apply_move(board, last.m), board.turn)
(***************************************************************************)
(* Searching: UCCIEngine::go runs Board::iterative_deepening on its board, *)
(* the GUI runs SearchState::iterative_deepening on a SearchState.         *)
(***************************************************************************)
\* 4k4/9/9/9/9/4R4/9/9/9/3K5 b
FEN_ONE ==
    <<"4", "k", "4", "/", "9", "/", "9", "/", "9", "/", "9", "/", "4", "R", "4", "/", "9", "/", "9", "/", "9", "/", "3", "K", "5", " ", "b">>

\* 4k4/9/9/9/9/9/9/9/9/R2K5 w
FEN_ROOK ==
    <<"4", "k", "4", "/", "9", "/", "9", "/", "9", "/", "9", "/", "9", "/", "9", "/", "9", "/", "9", "/", "R", "2", "K", "5", " ", "w">>

\* R3k4/R8/9/9/9/9/9/9/9/3K5 b
FEN_MATE ==
    <<"R", "3", "k", "4", "/", "R", "8", "/", "9", "/", "9", "/", "9", "/", "9", "/", "9", "/", "9", "/", "9", "/", "3", "K", "5", " ", "b">>

\* 4k4/9/9/9/9/9/9/9/p8/R2K5 w
FEN_TAKE ==
    <<"4", "k", "4", "/", "9", "/", "9", "/", "9", "/", "9", "/", "9", "/", "9", "/", "9", "/", "p", "8", "/", "R", "2", "K", "5", " ", "w">>

\* 9/5R3/4k4/9/9/9/9/9/3p5/3K5 w: Red's only legal move takes the pawn and leaves Black no move
FEN_STALEMATE ==
    <<"9", "/", "5", "R", "3", "/", "4", "k", "4", "/", "9", "/", "9", "/", "9", "/", "9", "/", "9", "/", "3", "p", "5", "/", "3", "K", "5", " ", "w">>

SearchPositions ==
    {from_fen(FEN_ONE), from_fen(FEN_ROOK), from_fen(FEN_KILL), from_fen(FEN_MATE),
     from_fen(FEN_TAKE), from_fen(FEN_STALEMATE)}

\* bounds of the searches: the depths of the searches of one run add up to at
\* most MaxDepthBudget, and there are at most MaxGos of them
MaxDepthBudget == 3

\* a search is called with a max_depth down to -MaxBelowZero
MaxBelowZero == 1

\* a Board search of negative depth never meets depth == 0: it comes back only
\* where the game ends below the root, the case followed here
EndsBelowZero(b) == b.chesses = from_fen(FEN_STALEMATE).chesses
MaxGos == 2

InitSearch ==
    /\ board \in SearchPositions
    /\ ss = SearchState_new
    /\ held = <<>>
    /\ last = [op |-> "init", capture |-> FALSE, pre |-> Core(board)]
    /\ stack = <<>>
    /\ ret = NoRet
    /\ run \in {IdleRun("Board"), IdleRun("SearchState")}

Top == stack[Len(stack)]

Now == Pair(board, ss)

\* a step of the top frame takes effect
Commit(out) ==
    /\ board' = out.P.board
    /\ ss' = out.P.ss
    /\ stack' = CASE out.kind = "return" -> Pop(stack)
                  [] out.kind = "call" -> Push(Push(Pop(stack), out.frame), out.child)
                  [] OTHER -> Push(Pop(stack), out.frame)
    /\ ret' = IF out.kind = "return"
              THEN [value |-> out.value, mv |-> out.mv, tt |-> out.tt]
              ELSE ret
    /\ UNCHANGED <<held, last, run>>

\* the node has at most SortBound moves to sort
SortsInOrder(b) == Len(generate_move(b, FALSE)) <= SortBound

At(fn, pc) == Len(stack) > 0 /\ Top.fn = fn /\ Top.pc = pc /\ SortsInOrder(board)

PvsEntry == At("pvs", "entry") /\ \E out \in {pvs_entry(run.impl, Now, Top)} : Commit(out)

PvsAfterQuies == At("pvs", "after_quies") /\ \E out \in {pvs_after_quies(run.impl, Now, Top, ret)} : Commit(out)

PvsAfterNull == At("pvs", "after_null") /\ \E out \in {pvs_after_null(run.impl, Now, Top, ret)} : Commit(out)

PvsHash == At("pvs", "hash") /\ \E out \in {pvs_hash(run.impl, Now, Top)} : Commit(out)

PvsAfterHash == At("pvs", "after_hash") /\ \E out \in {pvs_after_hash(run.impl, Now, Top, ret)} : Commit(out)

PvsLoop == At("pvs", "loop") /\ \E out \in {pvs_loop(run.impl, Now, Top)} : Commit(out)

PvsAfterScout == At("pvs", "after_scout") /\ \E out \in {pvs_after_scout(run.impl, Now, Top, ret)} : Commit(out)

PvsAfterFull == At("pvs", "after_full") /\ \E out \in {pvs_after_full(run.impl, Now, Top, ret)} : Commit(out)

QuiesEntry == At("quies", "entry") /\ \E out \in {quies_entry(run.impl, Now, Top)} : Commit(out)

QuiesLoop == At("quies", "qloop") /\ \E out \in {quies_loop(run.impl, Now, Top)} : Commit(out)

QuiesAfterChild == At("quies", "after_qchild") /\ \E out \in {quies_after_child(run.impl, Now, Top, ret)} : Commit(out)

\* iterative_deepening makes an alpha_beta_pvs call: the Board's always
\* (with max_depth itself when that is 3 or less, negative or not), the
\* SearchState's when max_depth is 1 or more
makes_call(impl, max_depth) == IF impl = "Board" THEN TRUE ELSE max_depth >= 1

\* the depth of the first alpha_beta_pvs call of iterative_deepening
first_depth(impl, max_depth) ==
    IF impl = "Board" THEN (IF max_depth > 3 THEN 3 ELSE max_depth) ELSE 1

\* UCCIEngine::go prints bestmove for a move that is_valid, nobestmove otherwise
go_output(impl, mv) ==
    IF impl # "Board" THEN ""
    ELSE IF is_some(mv) /\ move_is_valid(unwrap(mv)) THEN "bestmove" ELSE "nobestmove"

\* iterative_deepening is called with max_depth (by go, with an empty book, for
\* the Board): it makes its first alpha_beta_pvs call, the Board's also with
\* max_depth below 1, or (the SearchState's, with max_depth below 1) returns
\* (0, None)
IterativeDeepeningOf(max_depth) ==
    /\ LET d == first_depth(run.impl, max_depth)
           r == [run EXCEPT !.max_depth = max_depth, !.depth = d, !.gos = @ + 1,
                            !.used = @ + (IF max_depth > 0 THEN max_depth ELSE 0),
                            !.best_value = 0,
                            !.best_move = None, !.root = board, !.root_ss = ss,
                            !.value = 0, !.mv = None, !.tt = FALSE, !.output = ""]
       IN  IF ~makes_call(run.impl, max_depth)
           THEN /\ run' = [r EXCEPT !.status = "done", !.output = go_output(run.impl, None)]
                /\ stack' = <<>>
           ELSE /\ run' = [r EXCEPT !.status = "running"]
                /\ stack' = <<Frame("pvs", d, MIN, MAX, TRUE)>>
    /\ ret' = NoRet
    /\ UNCHANGED <<board, ss, held, last>>

IterativeDeepeningCall ==
    /\ run.status \in {"idle", "done"}
    /\ run.gos < MaxGos
    /\ \E max_depth \in (0 - MaxBelowZero)..MaxDepthBudget :
          /\ run.used + max_depth <= MaxDepthBudget
          /\ IF max_depth < 0 /\ run.impl = "Board" THEN EndsBelowZero(board) ELSE TRUE
          /\ IterativeDeepeningOf(max_depth)

\* an alpha_beta_pvs call of iterative_deepening has returned: the next depth is
\* searched, or iterative_deepening returns
IterativeDeepeningNext ==
    /\ run.status = "running"
    /\ stack = <<>>
    /\ LET keep == run.impl = "SearchState" /\ ~is_some(ret.mv)
           value == IF run.impl = "Board" THEN ret.value
                    ELSE IF keep THEN run.best_value ELSE ret.value
           mv == IF run.impl = "Board" THEN ret.mv
                 ELSE IF keep THEN run.best_move ELSE ret.mv
           r == [run EXCEPT !.best_value = value, !.best_move = mv,
                            !.tt = IF keep THEN @ ELSE ret.tt]
       IN  IF run.depth = run.max_depth
           THEN /\ run' = [r EXCEPT !.status = "done", !.value = value, !.mv = mv,
                                    !.output = go_output(run.impl, mv)]
                /\ stack' = <<>>
           ELSE /\ run' = [r EXCEPT !.depth = @ + 1]
                /\ stack' = <<Frame("pvs", run.depth + 1, MIN, MAX, TRUE)>>
    /\ UNCHANGED <<board, ss, held, last, ret>>

NextSearch ==
    \/ IterativeDeepeningCall
    \/ IterativeDeepeningNext
    \/ PvsEntry
    \/ PvsAfterQuies
    \/ PvsAfterNull
    \/ PvsHash
    \/ PvsAfterHash
    \/ PvsLoop
    \/ PvsAfterScout
    \/ PvsAfterFull
    \/ QuiesEntry
    \/ QuiesLoop
    \/ QuiesAfterChild

SpecSearch == InitSearch /\ [][NextSearch]_vars

(***************************************************************************)
(* The claims about the search.                                            *)
(***************************************************************************)
\* iterative_deepening has returned / one of its alpha_beta_pvs calls has
Returned == run.status = "done"

IterationReturned == run.status = "running" /\ stack = <<>>

\* what iterative_deepening is to leave as it found it
FrameOf(b, s) ==
    [core |-> Core(b), distance |-> b.distance,
     move_history |-> Len(b.move_history),
     zobrist_history |-> Len(b.zobrist_history),
     check_history |-> Len(b.check_history),
     ss_distance |-> s.distance,
     ss_move_history |-> Len(s.move_history),
     ss_zobrist_history |-> Len(s.zobrist_history),
     ss_check_history |-> Len(s.check_history)]

\* C4: when iterative_deepening returns, the grid, the side to move, the two
\* hashes, the two material sums and the ply counter are what they were at the
\* call, and the move, zobrist and check histories have the lengths they had
C4_SearchRestoresPosition == Returned => FrameOf(board, ss) = FrameOf(run.root, run.root_ss)

\* m is a legal move of the side to move of b, with the fields that belong to it
LegalIn(b, m) ==
    /\ m.player = b.turn
    /\ chess_at(b, m.from) = m.chess
    /\ belong_to(m.chess, b.turn)
    /\ is_move_legal(b, m)

\* C5: a move returned by iterative_deepening, and by each of its iterations,
\* the ones answered from the transposition table included, is a legal move
\* of the side to move in the root position
C5_ReturnedMoveIsLegal ==
    /\ (Returned /\ is_some(run.mv)) => LegalIn(run.root, unwrap(run.mv))
    /\ (IterationReturned /\ is_some(ret.mv)) => LegalIn(run.root, unwrap(ret.mv))

C5_Witness ==
    /\ Returned
    /\ run.tt
    /\ is_some(run.mv)
    /\ LegalIn(run.root, unwrap(run.mv))

HasLegalMove(b) == \E m \in Generated(b) : is_move_legal(b, m)

\* C6: iterative_deepening with max_depth >= 1 returns None, and go prints
\* nobestmove, exactly when the side to move of the root has no legal move
C6_NoMoveIffNoLegalMove ==
    (Returned /\ run.max_depth >= 1) =>
        /\ is_some(run.mv) <=> HasLegalMove(run.root)
        /\ run.impl = "Board" => (run.output = "nobestmove" <=> ~HasLegalMove(run.root))

\* the values the probes of a slot are made with
ProbeValues == {MIN, 0, MAX}

ProbeDepths == 0..MaxDepthBudget

\* the slot of the position in the table is empty or holds another lock
SlotMisses(records, b) ==
    \/ record_index(b.zobrist_value) \notin DOMAIN records
    \/ records[record_index(b.zobrist_value)].zobrist_lock # b.zobrist_value_lock

\* C10: find_record answers (None, None) from an empty slot and from a slot
\* whose lock is not the lock of the position; a score or a move it returns
\* comes from a slot with the lock of the position
C10_OnlyEqualLockAnswers ==
    \A alpha \in ProbeValues, beta \in ProbeValues, depth \in ProbeDepths :
        /\ SlotMisses(board.records, board)
              => find_record(board, alpha, beta, depth) = Found(None, None)
        /\ SlotMisses(ss.records, board)
              => ss_find_record(ss, board, alpha, beta, depth) = Found(None, None)

C10_Witness ==
    /\ At("pvs", "entry")
    /\ run.impl = "Board"
    /\ record_index(board.zobrist_value) \in DOMAIN board.records
    /\ SlotMisses(board.records, board)
    /\ is_some(board.records[record_index(board.zobrist_value)].best_move)
    /\ find_record(board, MIN, MAX, 0) = Found(None, None)

\* the position after the move m, made as the search makes it
After(b, m) == apply_move(b, m)

\* the side to move has a legal move after which the other side has none
MateInOne(b) ==
    \E m \in Generated(b) :
        is_move_legal(b, m) /\ \E after \in {After(b, m)} : ~HasLegalMove(after)

\* C11: in a position with a mate in one, iterative_deepening with
\* max_depth = 2 returns a move after which the opponent has no legal move,
\* with a score of magnitude above 30000
C11_MateInOneIsFound ==
    (Returned /\ run.max_depth = 2 /\ MateInOne(run.root)) =>
        /\ is_some(run.mv)
        /\ \E after \in {After(run.root, unwrap(run.mv))} : ~HasLegalMove(after)
        /\ Abs(run.value) > MATE_BAND

(***************************************************************************)
(* Repetition.  A game prefix made by the position command (apply_move),   *)
(* then the moves of a search: do_move of the Board search, or push_move   *)
(* of a SearchState.  The moves are the legal ones between a few squares,  *)
(* so that a position can come back within four moves.                     *)
(***************************************************************************)
\* 5k3/9/9/9/9/4R4/9/9/9/3K5 w: the rook checks on e and f in turn
FEN_CHASE ==
    <<"5", "k", "3", "/", "9", "/", "9", "/", "9", "/", "9", "/", "4", "R", "4", "/", "9", "/", "9", "/", "9", "/", "3", "K", "5", " ", "w">>

RepPositions == {from_fen(FEN_ONE), from_fen(FEN_CHASE), Board_init}

RepSquares ==
    {Pos(0, 4), Pos(0, 5), Pos(5, 4), Pos(5, 5), Pos(5, 6), Pos(9, 3), Pos(8, 3),
     Pos(9, 1), Pos(7, 2), Pos(0, 1), Pos(2, 2)}

MaxGameMoves == 1
MaxRepPly == 4
MaxRepNulls == 1

RepMoves(b) ==
    {m \in Generated(b) : m.from \in RepSquares /\ m.to \in RepSquares /\ is_move_legal(b, m)}

CountKind(kind) == Cardinality({i \in 1..Len(held) : held[i].kind = kind})

\* what is remembered of a move: how it was made, the position before it, and
\* whether it gave check
RepEntry(kind, m, before, after) ==
    [kind |-> kind, m |-> m, pre |-> Core(before), check |-> is_checked(after, after.turn)]

InitRep ==
    /\ board \in RepPositions
    /\ ss = SearchState_new
    /\ held = <<>>
    /\ last = [op |-> "init", capture |-> FALSE, pre |-> Core(board)]
    /\ NoSearch

\* UCCIEngine::position applies a legal move of its list
RepApplyMove ==
    /\ HeldKinds \subseteq {"apply"}
    /\ CountKind("apply") < MaxGameMoves
    /\ \E m \in RepMoves(board) : \E after \in {apply_move(board, m)} :
          /\ board' = after
          /\ held' = Push(held, RepEntry("apply", m, board, after))
          /\ last' = [op |-> "apply_move", capture |-> m.capture # NoChess, pre |-> Core(board)]
    /\ UNCHANGED <<ss, stack, ret, run>>

\* the Board search makes a move
RepDoMove ==
    /\ HeldKinds \subseteq {"apply", "do", "do_null"}
    /\ CountKind("do") < MaxRepPly
    /\ \E m \in RepMoves(board) : \E after \in {do_move(board, m)} :
          /\ board' = after
          /\ held' = Push(held, RepEntry("do", m, board, after))
          /\ last' = [op |-> "do_move", capture |-> m.capture # NoChess, pre |-> Core(board)]
    /\ UNCHANGED <<ss, stack, ret, run>>

\* a SearchState makes a move
RepPushMove ==
    /\ HeldKinds \subseteq {"push", "push_null"}
    /\ CountKind("push") < MaxRepPly
    /\ \E m \in RepMoves(board) : \E out \in {push_move(ss, board, m)} :
          /\ board' = out.board
          /\ ss' = out.ss
          /\ held' = Push(held, RepEntry("push", m, board, out.board))
          /\ last' = [op |-> "push_move", capture |-> m.capture # NoChess, pre |-> Core(board)]
    /\ UNCHANGED <<stack, ret, run>>

\* the Board search makes a null move
RepDoNullMove ==
    /\ HeldKinds \subseteq {"apply", "do", "do_null"}
    /\ CountKind("do_null") < MaxRepNulls
    /\ board' = do_null_move(board)
    /\ held' = Push(held, [kind |-> "do_null", m |-> NullEntry, pre |-> Core(board), check |-> FALSE])
    /\ last' = [op |-> "do_null_move", capture |-> FALSE, pre |-> Core(board)]
    /\ UNCHANGED <<ss, stack, ret, run>>

\* a SearchState makes a null move
RepPushNullMove ==
    /\ HeldKinds \subseteq {"push", "push_null"}
    /\ CountKind("push_null") < MaxRepNulls
    /\ \E out \in {push_null_move(ss, board)} :
          /\ board' = out.board
          /\ ss' = out.ss
    /\ held' = Push(held, [kind |-> "push_null", m |-> NullEntry, pre |-> Core(board), check |-> FALSE])
    /\ last' = [op |-> "push_null_move", capture |-> FALSE, pre |-> Core(board)]
    /\ UNCHANGED <<stack, ret, run>>

NextRep ==
    \/ RepApplyMove
    \/ RepDoMove
    \/ RepPushMove
    \/ RepDoNullMove
    \/ RepPushNullMove

SpecRep == InitRep /\ [][NextRep]_vars

\* the move made k moves ago (0: the last one)
Ago(k) == held[Len(held) - k]

\* the last four moves were made by the search, took nothing, and brought
\* back the grid and the side to move
CameBack ==
    /\ Len(held) >= 4
    /\ \A k \in 0..3 : Ago(k).kind = Ago(0).kind /\ Ago(k).m.capture = NoChess
    /\ Ago(0).kind \in {"do", "push"}
    /\ Ago(3).pre.chesses = board.chesses
    /\ Ago(3).pre.turn = board.turn

RepStatusNow == IF Ago(0).kind = "do" THEN rep_status(board, 1) ELSE ss_rep_status(ss, board, 1)

RepValueNow ==
    IF Ago(0).kind = "do" THEN rep_value(board, RepStatusNow) ELSE ss_rep_value(ss, RepStatusNow)

PlyNow == IF Ago(0).kind = "do" THEN board.distance ELSE ss.distance

\* every move of the side now to move gave check / of the other side
SelfChecked == Ago(3).check /\ Ago(1).check

OtherChecked == Ago(2).check /\ Ago(0).check

\* C12: after four moves of the search that take nothing and bring the
\* position back, rep_status(1) has bit 1; when exactly one side gave check
\* with each of its moves, that side's bit is set (2: the side to move, 4:
\* the other) and rep_value is the loss of the checking side
C12_RepetitionIsSeen ==
    CameBack =>
        /\ RepStatusNow % 2 = 1
        /\ (SelfChecked /\ ~OtherChecked) =>
              (RepStatusNow \div 2) % 2 = 1 /\ RepValueNow = -BAN_VAL + PlyNow
        /\ (OtherChecked /\ ~SelfChecked) =>
              (RepStatusNow \div 4) % 2 = 1 /\ RepValueNow = BAN_VAL - PlyNow

(***************************************************************************)
(* is_checked on positions of the two Kings.  Every position is read by    *)
(* from_fen from a FEN with at most one piece on a rank: the Black King on *)
(* a square of its palace, outside it or absent, the Red King likewise,    *)
(* and at most one more piece on the ranks between.                        *)
(***************************************************************************)
\* the FEN text of a rank that holds one piece, ch on column c
RankOf(ch, c) ==
    (IF c > 0 THEN <<DigitChars[c + 1]>> ELSE <<>>) \o <<ch>>
    \o (IF c < BOARD_WIDTH - 1 THEN <<DigitChars[BOARD_WIDTH - c]>> ELSE <<>>)

NoPiece == [ch |-> "9", row |-> -1, col |-> -1]

Piece(ch, row, col) == [ch |-> ch, row |-> row, col |-> col]

RECURSIVE FenOfRanks(_, _)
FenOfRanks(pieces, i) ==
    LET here == {p \in pieces : p.row = i}
        rank == IF here = {} THEN <<"9">>
                ELSE LET p == CHOOSE q \in here : TRUE IN RankOf(p.ch, p.col)
    IN  IF i = BOARD_HEIGHT - 1 THEN rank \o <<" ", "w">>
        ELSE rank \o <<"/">> \o FenOfRanks(pieces, i + 1)

BlackKingPlaces ==
    {Piece("k", r, c) : r \in 0..2, c \in 3..5} \cup {Piece("k", 3, 4), NoPiece}

RedKingPlaces ==
    {Piece("K", r, c) : r \in 7..9, c \in 3..5} \cup {Piece("K", 6, 4), NoPiece}

BetweenPlaces ==
    {Piece("A", 4, c) : c \in 3..5} \cup {Piece("R", 5, 4), Piece("n", 5, 4), NoPiece}

CheckPositions ==
    {from_fen(FenOfRanks({bk, rk, x}, 0)) :
        bk \in BlackKingPlaces, rk \in RedKingPlaces, x \in BetweenPlaces}
    \cup {Board_init}

InitCheck ==
    /\ board \in CheckPositions
    /\ ss = SearchState_new
    /\ held = <<>>
    /\ last = [op |-> "init", capture |-> FALSE, pre |-> Core(board)]
    /\ NoSearch

\* Board::is_checked(player)
IsChecked ==
    /\ last.op = "init"
    /\ \E player \in {"Red", "Black"} :
          last' = [op |-> "is_checked", player |-> player, checked |-> is_checked(board, player)]
    /\ UNCHANGED <<board, ss, held, stack, ret, run>>

\* Board::king_eye_to_eye
KingEyeToEye ==
    /\ last.op = "init"
    /\ last' = [op |-> "king_eye_to_eye", facing |-> king_eye_to_eye(board)]
    /\ UNCHANGED <<board, ss, held, stack, ret, run>>

NextCheck ==
    \/ IsChecked
    \/ KingEyeToEye

SpecCheck == InitCheck /\ [][NextCheck]_vars

\* the squares of a side's palace that hold its King
KingsInPalace(b, player) ==
    {s \in Squares : /\ s.col \in 3..5
                     /\ s.row \in (IF player = "Black" THEN 0..2 ELSE 7..9)
                     /\ chess_at(b, s) = [player |-> player, ct |-> "King"]}

\* both Kings stand in their palaces on one column with empty squares between
KingsFace(b) ==
    \E rk \in KingsInPalace(b, "Red"), bk \in KingsInPalace(b, "Black") :
        /\ rk.col = bk.col
        /\ \A r \in (bk.row + 1)..(rk.row - 1) : chess_at(b, Pos(r, rk.col)) = NoChess

\* C13: with both Kings in their palaces on one column and nothing between
\* them is_checked is true of Red and of Black; in the initial layout it is
\* false of both; of a side whose King is not in its palace it is true
C13_FacingKingsAreChecked ==
    last.op = "is_checked" =>
        /\ KingsFace(board) => last.checked
        /\ board.chesses = Board_init.chesses => ~last.checked
        /\ KingsInPalace(board, last.player) = {} => last.checked

\* is_checked was asked on a board that holds the two Kings, face to face,
\* and nothing else
C13_Witness ==
    /\ last.op = "is_checked"
    /\ KingsFace(board)
    /\ \A s \in Squares : chess_at(board, s).ct \in {"None", "King"}
    /\ last.checked

(***************************************************************************)
(* generate_move on a new Board::init() after calls on another board.      *)
(***************************************************************************)
MaxCountPly == 1

InitCount ==
    /\ board = Board_init
    /\ ss = SearchState_new
    /\ held = <<>>
    /\ last = [op |-> "init"]
    /\ NoSearch

\* board.generate_move(false)
CountGenerateMove ==
    /\ last' = [op |-> "generate_move", moves |-> generate_move(board, FALSE)]
    /\ UNCHANGED <<board, ss, held, stack, ret, run>>

\* board.is_checked(player)
CountIsChecked ==
    /\ \E player \in {"Red", "Black"} :
          last' = [op |-> "is_checked", player |-> player, checked |-> is_checked(board, player)]
    /\ UNCHANGED <<board, ss, held, stack, ret, run>>

\* board.apply_move on a generated move
CountApplyMove ==
    /\ Len(held) < MaxCountPly
    /\ \E m \in Generated(board) : \E after \in {apply_move(board, m)} :
          /\ board' = after
          /\ held' = Push(held, [kind |-> "apply", m |-> m, pre |-> Core(board)])
          /\ last' = [op |-> "apply_move"]
    /\ UNCHANGED <<ss, stack, ret, run>>

\* board.undo_move of the move applied last
CountUndoMove ==
    /\ Len(held) > 0
    /\ board.distance > -MaxDrift
    /\ board' = undo_move(board, held[Len(held)].m)
    /\ held' = Pop(held)
    /\ last' = [op |-> "undo_move"]
    /\ UNCHANGED <<ss, stack, ret, run>>

\* Board::init().generate_move(false), and is_move_legal of each move it returns
FreshGenerateMove ==
    /\ \E fresh \in {Board_init} : \E moves \in {generate_move(fresh, FALSE)} :
          last' = [op |-> "fresh_generate_move", moves |-> moves,
                   legal |-> [k \in 1..Len(moves) |-> is_move_legal(fresh, moves[k])]]
    /\ UNCHANGED <<board, ss, held, stack, ret, run>>

\* board.evaluate(player)
CountEvaluate ==
    /\ \E player \in {"Red", "Black"} :
          last' = [op |-> "evaluate", player |-> player, value |-> evaluate(board, player)]
    /\ UNCHANGED <<board, ss, held, stack, ret, run>>

NextCount ==
    \/ CountEvaluate
    \/ CountGenerateMove
    \/ CountIsChecked
    \/ CountApplyMove
    \/ CountUndoMove
    \/ FreshGenerateMove

SpecCount == InitCount /\ [][NextCount]_vars

\* the number of moves of a list that move a piece of one type
MovesOf(moves, ct) == Cardinality({k \in 1..Len(moves) : moves[k].chess.ct = ct})

\* C14: generate_move(false) on a new initial layout returns 44 moves, 5 of
\* Pawns, 24 of Cannons, 4 of Knights, 4 of Rooks, 4 of Bishops, 2 of Advisors
\* and 1 of the King, all of them legal, whatever was called before on
\* another board
C14_InitialLayoutHas44Moves ==
    last.op = "fresh_generate_move" =>
        /\ Len(last.moves) = 5 + 24 + 4 + 4 + 4 + 2 + 1
        /\ MovesOf(last.moves, "Pawn") = 5
        /\ MovesOf(last.moves, "Cannon") = 24
        /\ MovesOf(last.moves, "Knight") = 4
        /\ MovesOf(last.moves, "Rook") = 4
        /\ MovesOf(last.moves, "Bishop") = 4
        /\ MovesOf(last.moves, "Advisor") = 2
        /\ MovesOf(last.moves, "King") = 1
        /\ \A k \in 1..Len(last.moves) : last.legal[k]
        /\ Cardinality({m \in Squares \X Squares :
               is_move_legal(Board_init, Mv("Red", m[1], m[2], chess_at(Board_init, m[1]), chess_at(Board_init, m[2])))}) = 44

\* the moves were generated on a new board while the other board had a move
\* applied and Black to move
C14_Witness ==
    /\ last.op = "fresh_generate_move"
    /\ Len(held) = 1
    /\ board.turn = "Black"
    /\ Len(last.moves) = 44

(***************************************************************************)
(* The UCCI position command.  A parameter is the text after "position ":  *)
(* its head ("fen", "startpos" or anything else), the FEN text, and the    *)
(* entries of the moves list.                                              *)
(***************************************************************************)
MaxMoveList == 2

MaxCommands == 2

FenTail == <<" ", "-", " ", "-", " ", "0", " ", "1">>

RECURSIVE JoinRanks(_, _)
JoinRanks(ranks, k) ==
    IF k = Len(ranks) THEN ranks[k]
    ELSE ranks[k] \o <<"/">> \o JoinRanks(ranks, k + 1)

EmptyRank == <<"9">>

\* 4k4p/9/9/9/9/9/9/9/9/4K4 w: a Pawn on a tenth column
FEN_WIDE ==
    JoinRanks(<<RankOf("k", 4) \o <<"p">>, EmptyRank, EmptyRank, EmptyRank, EmptyRank, EmptyRank, EmptyRank, EmptyRank, EmptyRank, RankOf("K", 4)>>, 1) \o <<" ", "w">>

\* 4k4/9/9/9/9/9/9/9/9/4K4/p8 w: a Pawn on an eleventh rank
FEN_TALL ==
    JoinRanks(<<RankOf("k", 4), EmptyRank, EmptyRank, EmptyRank, EmptyRank, EmptyRank, EmptyRank, EmptyRank, EmptyRank, RankOf("K", 4), RankOf("p", 0)>>, 1) \o <<" ", "w">>

\* 4k41/9/9/9/9/9/9/9/9/4K4/9 w: ten columns and eleven ranks, no piece outside
FEN_LOOSE ==
    JoinRanks(<<RankOf("k", 4) \o <<"1">>, EmptyRank, EmptyRank, EmptyRank, EmptyRank, EmptyRank, EmptyRank, EmptyRank, EmptyRank, RankOf("K", 4), EmptyRank>>, 1) \o <<" ", "w">>

\* 4k4/9/9/9/9/9/9/9/9/4X4 w: a letter that names no piece
FEN_LETTER ==
    JoinRanks(<<RankOf("k", 4), EmptyRank, EmptyRank, EmptyRank, EmptyRank, EmptyRank, EmptyRank, EmptyRank, EmptyRank, RankOf("X", 4)>>, 1) \o <<" ", "w">>

PositionFens ==
    {FEN_START \o FenTail, FEN_KILL \o FenTail, FEN_CHASE \o FenTail, FEN_WIDE \o FenTail,
     FEN_TALL \o FenTail, FEN_LOOSE \o FenTail, FEN_LETTER \o FenTail, FEN_START}

\* h2e2, b2e2: Red Cannons; h9g7: a Black Knight; a0a5: the Red Rook through
\* its Pawn; e4f4: the Rook of FEN_CHASE
MoveTexts ==
    {<<"h", "2", "e", "2">>, <<"h", "9", "g", "7">>, <<"a", "0", "a", "5">>, <<"e", "4", "f", "4">>}

MoveLists == UNION {[1..n -> MoveTexts] : n \in 0..MaxMoveList}

\* texts with decimal digits beyond ASCII: a FEN whose first counter is
\* U+0663 (ARABIC-INDIC DIGIT THREE), one whose second counter is U+FF11
\* (FULLWIDTH DIGIT ONE), and moves lists with U+0662 or U+0669 for a rank
OtherDigitFens ==
    {FEN_KILL \o <<" ", "-", " ", "-", " ", "U+0663", " ", "1">>,
     FEN_KILL \o <<" ", "-", " ", "-", " ", "0", " ", "U+FF11">>}

OtherDigitLists ==
    {<<<<"h", "U+0662", "e", "2">>>>,
     <<<<"h", "2", "e", "U+0662">>>>,
     <<<<"h", "2", "e", "2">>, <<"h", "U+0669", "g", "7">>>>}

PositionParams ==
    {[head |-> "fen", fen |-> f, moves |-> ms] : f \in PositionFens, ms \in MoveLists}
    \cup {[head |-> h, fen |-> <<>>, moves |-> ms] : h \in {"startpos", "other"}, ms \in MoveLists}
    \cup {[head |-> "startpos", fen |-> <<>>, moves |-> <<<<"j", "0", "a", "1">>>>]}
    \cup {[head |-> "fen", fen |-> f, moves |-> <<>>] : f \in OtherDigitFens}
    \cup {[head |-> "startpos", fen |-> <<>>, moves |-> ms] : ms \in OtherDigitLists}

FileChars == <<"a", "b", "c", "d", "e", "f", "g", "h", "i">>

FenChars ==
    {"k", "a", "b", "n", "r", "c", "p", "K", "A", "B", "N", "R", "C", "P",
     "1", "2", "3", "4", "5", "6", "7", "8", "9", "/"}

\* \d+ of the pattern
IsDigits(str) == Len(str) > 0 /\ \A k \in 1..Len(str) : is_decimal_digit(str[k])

\* the fen group of the pattern: [kabnrcpKABNRCP1-9/]+ [wrb] - - \d+ \d+
FenAccepted(fen) ==
    \E parts \in {split(fen, " ")} :
        /\ Len(parts) = 6
        /\ Len(parts[1]) > 0
        /\ \A k \in 1..Len(parts[1]) : parts[1][k] \in FenChars
        /\ Len(parts[2]) = 1
        /\ parts[2][1] \in {"w", "r", "b"}
        /\ parts[3] = <<"-">>
        /\ parts[4] = <<"-">>
        /\ IsDigits(parts[5])
        /\ IsDigits(parts[6])

\* an entry of the moves group: [a-i]\d[a-i]\d
MoveAccepted(text) ==
    /\ Len(text) = 4
    /\ text[1] \in Range(FileChars)
    /\ is_decimal_digit(text[2])
    /\ text[3] \in Range(FileChars)
    /\ is_decimal_digit(text[4])

\* the pattern of position matches the parameter
Matches(param) ==
    /\ param.head \in {"fen", "startpos"}
    /\ param.head = "fen" => FenAccepted(param.fen)
    /\ \A k \in 1..Len(param.moves) : MoveAccepted(param.moves[k])

\* a - b of two u8: where it overflows, the build that checks for overflow
\* panics and the build that does not wraps around
u8_sub(a, b) == [value |-> (a - b + 256) % 256, overflow |-> a < b]

\* Position::from(&str), for a text of two bytes or more: the position its
\* first two bytes name, and whether a subtraction overflowed on the way
PositionFrom(text) ==
    With(as_bytes(text), LAMBDA mb :
        LET digit == u8_sub(mb[2], 48)
            file == u8_sub(mb[1], 97)
        IN  [pos |-> Pos(BOARD_HEIGHT - 1 - digit.value, file.value),
             overflow |-> digit.overflow \/ file.overflow])

\* the Move position and parse_move_string build from the two halves of a text
EntryMove(b, halves) ==
    LET from == PositionFrom(halves[1]).pos
        to == PositionFrom(halves[2]).pos
    IN  Mv(b.turn, from, to, chess_at(b, from), chess_at(b, to))

\* from_fen indexes the grid outside its 10 rows or 9 columns: set_chess is
\* called for a letter at row i, column j
RECURSIVE FenRowOutOfRange(_, _, _, _)
FenRowOutOfRange(row, i, j, k) ==
    IF k > Len(row) THEN FALSE
    ELSE IF is_numeric(row[k])
    THEN FenRowOutOfRange(row, i, j + unwrap(to_digit(row[k])), k + 1)
    ELSE IF is_some(FEN_MAP(row[k])) /\ (i >= BOARD_HEIGHT \/ j >= BOARD_WIDTH) THEN TRUE
    ELSE FenRowOutOfRange(row, i, j + 1, k + 1)

FenOutOfRange(fen) ==
    \E rows \in {split(split(fen, " ")[1], "/")} :
        \E i \in 0..(Len(rows) - 1) : FenRowOutOfRange(rows[i + 1], i, 0, 1)

\* the text has a numeric character that to_digit(10) has no value for
HasDigitless(str) == \E k \in 1..Len(str) : is_numeric(str[k]) /\ ~is_some(to_digit(str[k]))

\* from_fen panics: the text has no second part (the unwrap of the side to
\* move), a numeric character without a digit value (the unwrap of to_digit),
\* or a piece outside the grid
from_fen_panics(fen) ==
    With(split(fen, " "), LAMBDA parts :
        IF Len(parts) < 2 THEN TRUE
        ELSE IF HasDigitless(parts[1]) THEN TRUE
        ELSE FenOutOfRange(fen))

\* the loop over the moves list: every entry that passes is_move_legal is
\* applied; split_at(2) panics at an entry whose second character is longer
\* than a byte, after the entries before it were handled
RECURSIVE ApplyEntries(_, _, _, _)
ApplyEntries(b, moves, k, applied) ==
    IF k > Len(moves) THEN [board |-> b, applied |-> applied, aborted |-> FALSE]
    ELSE With(split_at(moves[k], 2), LAMBDA halves :
         IF ~is_some(halves) THEN [board |-> b, applied |-> applied, aborted |-> TRUE]
         ELSE With(EntryMove(b, unwrap(halves)), LAMBDA m :
              With(is_move_legal(b, m), LAMBDA legal :
              With(IF legal THEN apply_move(b, m) ELSE b, LAMBDA after :
                   ApplyEntries(after, moves, k + 1, Append(applied, legal))))))

\* UCCIEngine::position.  An entry the pattern accepts begins with a letter
\* from a to i and has digits or bytes above them next, so that no
\* subtraction of Position::from overflows
position(b, param) ==
    IF ~Matches(param)
    THEN [board |-> b, matched |-> FALSE, aborted |-> FALSE, applied |-> <<>>]
    ELSE IF param.head = "fen" /\ from_fen_panics(param.fen)
    THEN [board |-> b, matched |-> TRUE, aborted |-> TRUE, applied |-> <<>>]
    ELSE With(IF param.head = "fen" THEN from_fen(param.fen) ELSE Board_init, LAMBDA start :
              With(ApplyEntries(start, param.moves, 1, <<>>), LAMBDA out :
                   [board |-> out.board, matched |-> TRUE, aborted |-> out.aborted,
                    applied |-> out.applied]))

\* UCCIEngine::new
InitPosition ==
    /\ board = Board_init
    /\ ss = SearchState_new
    /\ held = <<>>
    /\ last = [op |-> "init", aborted |-> FALSE, commands |-> 0]
    /\ NoSearch

\* the engine reads a position command; after a panic it reads no more
Position ==
    /\ ~last.aborted
    /\ last.commands < MaxCommands
    /\ \E param \in PositionParams : \E out \in {position(board, param)} :
          /\ board' = out.board
          /\ last' = [op |-> "position", param |-> param, matched |-> out.matched,
                      aborted |-> out.aborted, applied |-> out.applied,
                      unchanged |-> out.board = board, commands |-> last.commands + 1]
    /\ UNCHANGED <<ss, held, stack, ret, run>>

NextPosition == Position

SpecPosition == InitPosition /\ [][NextPosition]_vars

\* position has built the board from a FEN text and applied no move
BuiltFromFen ==
    /\ last.op = "position"
    /\ last.matched
    /\ ~last.aborted
    /\ last.param.head = "fen"
    /\ last.param.moves = <<>>

\* C15: the board from_fen builds from the start FEN has the grid, the side to
\* move, the hashes and the sums of Board::init; the hashes and sums of every
\* board from_fen builds are the from-scratch values of its grid and side
C15_FromFenFromScratch ==
    BuiltFromFen =>
        /\ HashIn(board) = HashOf(board)
        /\ board.vl_red = SideValueFrom(board, "Red", 0)
        /\ board.vl_black = SideValueFrom(board, "Black", 0)
        /\ last.param.fen = FEN_START \o FenTail => Core(board) = Core(Board_init)

\* from_fen has built a board with Black to move
C15_Witness ==
    /\ BuiltFromFen
    /\ last.param.fen = FEN_KILL \o FenTail
    /\ board.turn = "Black"
    /\ HashIn(board) = HashOf(board)

\* the board the command starts its moves list from
StartOf(param) == IF param.head = "fen" THEN from_fen(param.fen) ELSE Board_init

\* the moves list applied up to its first entry that fails is_move_legal
RECURSIVE EntriesBeforeFailure(_, _, _)
EntriesBeforeFailure(b, moves, k) ==
    IF k > Len(moves) THEN b
    ELSE LET m == EntryMove(b, unwrap(split_at(moves[k], 2)))
         IN  IF is_move_legal(b, m) THEN EntriesBeforeFailure(apply_move(b, m), moves, k + 1)
             ELSE b

\* C17: the position a position command leaves is the one reached by the
\* entries of its moves list before the first entry that fails is_move_legal;
\* that entry and the entries after it are not applied
C17_IllegalEntryStopsList ==
    (last.op = "position" /\ last.matched /\ ~last.aborted) =>
        Core(board) = Core(EntriesBeforeFailure(StartOf(last.param), last.param.moves, 1))

\* C18: a position command never aborts the engine: from_fen completes on
\* every FEN text the pattern accepts, and a parameter the pattern does not
\* match leaves the board as it was
C18_PositionNeverAborts ==
    last.op = "position" =>
        /\ ~last.aborted
        /\ ~last.matched => last.unchanged

\* the initial layout after the Red Rook went from (9, 8) to (7, 8)
RookUpGrid == set_chess(set_chess(InitGrid, Pos(9, 8), NoChess), Pos(7, 8), Red("Rook"))

\* C16: evaluate(p) is the from-scratch sum of p minus that of the other side
\* plus 3, so the two sides' evaluations add up to 6; after the Red Rook's
\* move from (9, 8) to (7, 8) in the initial layout evaluate(Red) is 7
C16_EvaluateIsDifference ==
    last.op = "evaluate" =>
        /\ last.value = SideValueFrom(board, last.player, 0)
                        - SideValueFrom(board, next(last.player), 0) + 3
        /\ evaluate(board, "Red") + evaluate(board, "Black") = 6
        /\ (board.chesses = RookUpGrid /\ last.player = "Red") => last.value = 7

\* evaluate(Red) was called after the Rook's move
C16_Witness ==
    /\ last.op = "evaluate"
    /\ last.player = "Red"
    /\ board.chesses = RookUpGrid
    /\ Len(held) = 1
    /\ last.value = 7

(***************************************************************************)
(* Claims about the nodes of the search, checked under SpecSearch.         *)
(***************************************************************************)
\* the step returns from a call of alpha_beta_pvs_internal that went through
\* its moves (it was not answered by the table, a repetition, quies at depth
\* 0 or the null move); board and ss are then those of the node
PvsReturns ==
    /\ Len(stack) > 0
    /\ Top.fn = "pvs"
    /\ Top.pc \in {"after_hash", "loop", "after_scout", "after_full"}
    /\ stack' = Pop(stack)

\* the ply counter of the search that runs
PlyOf(b, s) == IF run.impl = "Board" THEN b.distance ELSE s.distance

\* C19: a call of alpha_beta_pvs_internal that goes through the moves of its
\* node returns the mate score MIN + ply with no move exactly when the side
\* to move of the node has no legal move
C19_MateScoreIffNoLegalMove ==
    [][PvsReturns =>
          ((ret'.value = MIN + PlyOf(board', ss') /\ ~is_some(ret'.mv)) <=> ~HasLegalMove(board'))]_vars

(***************************************************************************)
(* The history stacks, checked under SpecRep.                              *)
(***************************************************************************)
\* the moves made so far that the move stack of the Board / of the
\* SearchState is to hold: those of do_move, those of push_move
MovesHeld(kind) == SelectSeq(held, LAMBDA e : e.kind = kind)

\* the three stacks have one length, and entry i of the zobrist stack is the
\* hash that held before entry i of the move stack was applied
Aligned(move_history, zobrist_history, check_history, made) ==
    /\ Len(move_history) = Len(zobrist_history)
    /\ Len(move_history) = Len(check_history)
    /\ Len(move_history) = Len(made)
    /\ \A i \in 1..Len(move_history) :
          /\ move_history[i] = made[i].m
          /\ i <= Len(zobrist_history) => zobrist_history[i] = made[i].pre.zobrist_value

\* C20: after from_fen, after the moves of a position command, and in a
\* search, inside and below null moves, the move, zobrist and check stacks
\* of the Board and of the SearchState have one length each and zobrist
\* entry i is the hash before move i; a null move adds no entry
C20_HistoryStacksAligned ==
    /\ Aligned(board.move_history, board.zobrist_history, board.check_history, MovesHeld("do"))
    /\ Aligned(ss.move_history, ss.zobrist_history, ss.check_history, MovesHeld("push"))


(***************************************************************************)
(* is_checked against is_valid_move.  Every position is read by from_fen:  *)
(* the King of one side on the middle square of its palace, the other King *)
(* on its back rank, one piece of the other side near the first King and   *)
(* at most one more piece next to it.                                      *)
(***************************************************************************)
\* the FEN text of the squares col.. of a rank, after gap empty squares
RECURSIVE RankFrom(_, _, _, _)
RankFrom(pieces, row, col, gap) ==
    LET digits == IF gap > 0 THEN <<DigitChars[gap + 1]>> ELSE <<>>
        here == {p \in pieces : p.row = row /\ p.col = col}
    IN  IF col = BOARD_WIDTH THEN digits
        ELSE IF here = {} THEN RankFrom(pieces, row, col + 1, gap + 1)
        ELSE digits \o <<(CHOOSE p \in here : TRUE).ch>> \o RankFrom(pieces, row, col + 1, 0)

\* the FEN text of a set of pieces on different squares, Red to move
FenOfPieces(pieces) ==
    JoinRanks([row \in 1..BOARD_HEIGHT |-> RankFrom(pieces, row - 1, 0, 0)], 1) \o <<" ", "w">>

\* the King under attack, the squares around it, the attackers, the blockers
AttackedKings == {Piece("K", 8, 4), Piece("k", 1, 4)}

OtherKings(king) ==
    IF king.ch = "K" THEN {Piece("k", 0, 3), Piece("k", 0, 4)}
    ELSE {Piece("K", 9, 3), Piece("K", 9, 4)}

Around(king, rows, cols) ==
    {sq \in Squares : /\ Abs(sq.row - king.row) <= rows
                      /\ Abs(sq.col - king.col) <= cols
                      /\ sq # Pos(king.row, king.col)}

Attackers(king) ==
    {Piece(ch, sq.row, sq.col) :
        ch \in (IF king.ch = "K" THEN {"n", "r", "c", "p"} ELSE {"N", "R", "C", "P"}),
        sq \in Around(king, 2, 2)}

Blockers(king) ==
    {Piece(IF king.ch = "K" THEN "A" ELSE "a", sq.row, sq.col) : sq \in Around(king, 1, 1)}
    \cup {NoPiece}

AttackPieces ==
    {{king, other, x, y} \ {NoPiece} :
        <<king, other, x, y>> \in
            {t \in UNION {{king} \X OtherKings(king) \X Attackers(king) \X Blockers(king) :
                             king \in AttackedKings} :
                t[3].row # t[4].row \/ t[3].col # t[4].col}}

AttackPositions == {from_fen(FenOfPieces(pieces)) : pieces \in AttackPieces}

InitAttack ==
    /\ board \in AttackPositions
    /\ ss = SearchState_new
    /\ held = <<>>
    /\ last = [op |-> "init", capture |-> FALSE, pre |-> Core(board)]
    /\ NoSearch

\* Board::is_checked(player) on a position read from a FEN
AttackIsChecked ==
    /\ last.op = "init"
    /\ \E player \in {"Red", "Black"} :
          last' = [op |-> "is_checked", player |-> player, checked |-> is_checked(board, player)]
    /\ UNCHANGED <<board, ss, held, stack, ret, run>>

\* Board::is_valid_move on the capture of a King, with its owner to move
AttackIsValidMove ==
    /\ last.op = "init"
    /\ \E player \in {"Red", "Black"}, from \in Squares :
          /\ belong_to(chess_at(board, from), next(player))
          /\ KingsInPalace(board, player) # {}
          /\ \E to \in KingsInPalace(board, player) :
                \E mover \in {[board EXCEPT !.turn = next(player)]} :
                    last' = [op |-> "is_valid_move", player |-> player, from |-> from, to |-> to,
                             valid |-> is_valid_move(mover, Mv(next(player), from, to,
                                                               chess_at(board, from),
                                                               chess_at(board, to)))]
    /\ UNCHANGED <<board, ss, held, stack, ret, run>>

NextAttack ==
    \/ AttackIsChecked
    \/ AttackIsValidMove

SpecAttack == InitAttack /\ [][NextAttack]_vars

\* some piece of the other side could capture the King of the player by a
\* move is_valid_move accepts when that side is to move
CanBeCaptured(b, player) ==
    \E to \in KingsInPalace(b, player), from \in Squares :
        /\ belong_to(chess_at(b, from), next(player))
        /\ is_valid_move([b EXCEPT !.turn = next(player)],
                         Mv(next(player), from, to, chess_at(b, from), chess_at(b, to)))

\* C21: with both Kings in their palaces, is_checked is true of a side exactly
\* when a piece of the other side could capture its King by a move obeying
\* is_valid_move, or the two Kings face each other on an open column
C21_CheckedIffKingCapturable ==
    (/\ last.op = "is_checked"
     /\ KingsInPalace(board, "Red") # {}
     /\ KingsInPalace(board, "Black") # {})
        => (last.checked <=> (CanBeCaptured(board, last.player) \/ KingsFace(board)))


(***************************************************************************)
(* The moves a quiescence node goes through.                               *)
(***************************************************************************)
\* a quies call has generated and sorted its moves and has made none yet:
\* the board is the position of the node
QuiesHasGenerated == At("quies", "qloop") /\ Top.i = 1

\* C22: a quiescence node goes through all the pseudo-legal moves when the
\* side to move is in check, and through the capturing moves only when it is
\* not
C22_QuiesGeneratesByCheck ==
    QuiesHasGenerated =>
        Range(Top.moves) = Range(generate_move(board, ~is_checked(board, board.turn)))


(***************************************************************************)
(* The record a node stores when its loop over the moves has ended.        *)
(***************************************************************************)
\* the loop over the moves of the node on top has ended without a cutoff
\* after at least one legal move, and the node returns through add_record
LoopStores ==
    /\ At("pvs", "loop")
    /\ Top.i > Len(Top.moves)
    /\ Top.count > 0
    /\ stack' = Pop(stack)

\* the table the running search works with
RecordsOf(b, s) == IF run.impl = "Board" THEN b.records ELSE s.records

\* add_record does write: the slot is empty or holds no greater depth
SlotTakes(records, b, depth) ==
    LET index == record_index(b.zobrist_value)
    IN  index \notin DOMAIN records \/ records[index].depth <= depth

\* a move of the main loop raised alpha: best_move is no longer what it was
\* when the loop began (the searched hash move, which the loop skips, or None)
RaisedInLoop(f) == f.best_move # (IF f.hash_move_searched THEN f.hash_move ELSE None)

\* C23: the record a node stores when its loop ends without a cutoff after at
\* least one legal move has flag Exact when a move of the loop raised alpha, and
\* flag Alpha (upper bound) when no move of the node raised alpha (no hash move
\* was searched and no move of the loop raised it)
C23_StoredFlagTellsRaise ==
    [][(LoopStores /\ SlotTakes(RecordsOf(board, ss), board, Top.depth)) =>
          LET stored == RecordsOf(board', ss')[record_index(board.zobrist_value)]
          IN  /\ RaisedInLoop(Top) => stored.flag = "Exact"
              /\ (~RaisedInLoop(Top) /\ ~Top.hash_move_searched) => stored.flag = "Alpha"]_vars


(***************************************************************************)
(* rep_status at a node of a search: after moves and null moves of the     *)
(* Board search or of a SearchState.                                       *)
(***************************************************************************)
\* a node of a search below the root: the last move or null move was made by
\* the search
AtSearchNode == Len(held) > 0 /\ Ago(0).kind # "apply"

\* rep_status(1) as the search running here calls it
RepStatusHere ==
    IF Ago(0).kind \in {"do", "do_null"} THEN rep_status(board, 1)
    ELSE ss_rep_status(ss, board, 1)

\* nothing was taken by the last k + 1 moves
NoCaptureSince(k) == \A j \in 0..k : Ago(j).m.capture = NoChess

\* a position the game or the search went through, after the most recent
\* capturing move, had the grid and the side to move of the current position
EarlierSame ==
    \E k \in 0..(Len(held) - 1) :
        /\ NoCaptureSince(k)
        /\ Ago(k).pre.chesses = board.chesses
        /\ Ago(k).pre.turn = board.turn

\* C24: at a node of a search, below a null move too, rep_status(1) is not 0
\* only if an earlier position, reached after the most recent capturing move,
\* had the same grid and the same side to move as the current one
C24_RepetitionOnlyOfEarlierPosition ==
    (AtSearchNode /\ RepStatusHere # 0) => EarlierSame


(***************************************************************************)
(* The searches iterative_deepening makes.                                 *)
(***************************************************************************)
\* iterative_deepening is called in this step, with max_depth at least 1
DeepeningBegins == run'.gos = run.gos + 1 /\ run'.max_depth >= 1

\* an alpha_beta_pvs call of iterative_deepening has returned
SearchEnded == run.status = "running" /\ stack = <<>>

\* alpha_beta_pvs(depth, MIN, MAX) is called in this step
FullSearchCalled(depth) ==
    /\ Len(stack') = 1
    /\ stack'[1].fn = "pvs"
    /\ stack'[1].pc = "entry"
    /\ stack'[1].depth = depth
    /\ stack'[1].alpha = MIN
    /\ stack'[1].beta = MAX

\* the searches are made at depths 1, 2, ..., max_depth with the full window
DeepeningInOrder ==
    /\ DeepeningBegins => FullSearchCalled(1)
    /\ (SearchEnded /\ run.depth < run.max_depth) => FullSearchCalled(run.depth + 1)
    /\ (SearchEnded /\ run'.status = "done") => run.depth = run.max_depth

\* iterative_deepening returns what its last search returned
DeepeningReturnsLast ==
    (SearchEnded /\ run'.status = "done") => (run'.value = ret.value /\ run'.mv = ret.mv)

\* C25: iterative_deepening(max_depth) searches at depths 1, 2, ..., max_depth
\* in this order, each time with the window (MIN, MAX), and returns the score
\* and the move of the search at depth max_depth
C25_DeepeningByDepth == [][DeepeningInOrder /\ DeepeningReturnsLast]_vars


(***************************************************************************)
(* The ply counter under the move primitives (SpecMoves).                  *)
(***************************************************************************)
\* the step applies a move or a null move to the Board / undoes one
BoardApplies == last'.op \in {"apply_move", "do_move", "do_null_move"}

BoardUndoes == last'.op \in {"undo_move", "undo_null_move"}

\* the Board's counter follows the moves applied to the Board and stays >= 0
BoardPlyCounts ==
    /\ BoardApplies => board'.distance = board.distance + 1
    /\ BoardUndoes => board'.distance = board.distance - 1
    /\ (BoardApplies \/ BoardUndoes) => board'.distance >= 0

\* the SearchState's counter follows its pushes and pops and stays >= 0
SearchStatePlyCounts ==
    /\ last'.op = "push_move" => ss'.distance = ss.distance + 1
    /\ last'.op = "pop_move" => ss'.distance = ss.distance - 1
    /\ ss'.distance >= 0

\* C26: every move or null move applied adds one to the ply counter, every one
\* undone takes one off, and the counter is never negative; so apply_move
\* followed by undo_move leaves it as it was
C26_PlyCountsMovesHeld == [][BoardPlyCounts /\ SearchStatePlyCounts]_vars


(***************************************************************************)
(* What apply_move leaves alone (SpecMoves).                               *)
(***************************************************************************)
\* C27: apply_move leaves the move history, the zobrist history, the check
\* history and the ply counter of the Board as they were
C27_ApplyMoveKeepsHistories ==
    [][last'.op = "apply_move" =>
          /\ board'.move_history = board.move_history
          /\ board'.zobrist_history = board.zobrist_history
          /\ board'.check_history = board.check_history
          /\ board'.distance = board.distance]_vars


(***************************************************************************)
(* How deep a search goes.  Besides the positions of SpecSearch the search *)
(* starts from a position in which every answer to a check gives check:    *)
(* the Cannon on i1 checks the King on d1 over the Advisor e1, the Advisor *)
(* steps to f2 and becomes the screen of the Cannon f0 against the King on *)
(* f9, the Knight answers on f1, the Advisor steps back, the Knight leaves *)
(* f1, and so on.  A run is followed until a node lies MaxOverrun plies    *)
(* beyond what MAX_DEPTH allows.                                           *)
(***************************************************************************)
\* 4pk3/9/9/9/9/9/6n2/3P5/3KA3c/3P1C3 w
FEN_LOOP ==
    <<"4", "p", "k", "3", "/", "9", "/", "9", "/", "9", "/", "9", "/", "9", "/", "6", "n", "2", "/", "3", "P", "5", "/", "3", "K", "A", "3", "c", "/", "3", "P", "1", "C", "3", " ", "w">>

MaxOverrun == 1

DeepPositions == SearchPositions \cup {from_fen(FEN_LOOP)}

\* the plies MAX_DEPTH allows the node on top: MAX_DEPTH, and one more where
\* quies stops
PlyAllowed == IF Top.fn = "quies" THEN MAX_DEPTH + 1 ELSE MAX_DEPTH

WithinReach == IF Len(stack) = 0 THEN TRUE ELSE PlyOf(board, ss) < PlyAllowed + MaxOverrun

InitDeep ==
    /\ board \in DeepPositions
    /\ ss = SearchState_new
    /\ held = <<>>
    /\ last = [op |-> "init", capture |-> FALSE, pre |-> Core(board)]
    /\ stack = <<>>
    /\ ret = NoRet
    /\ run \in {IdleRun("Board"), IdleRun("SearchState")}

NextDeep ==
    \/ IterativeDeepeningCall
    \/ (WithinReach /\ IterativeDeepeningNext)
    \/ (WithinReach /\ PvsEntry)
    \/ (WithinReach /\ PvsAfterQuies)
    \/ (WithinReach /\ PvsAfterNull)
    \/ (WithinReach /\ PvsHash)
    \/ (WithinReach /\ PvsAfterHash)
    \/ (WithinReach /\ PvsLoop)
    \/ (WithinReach /\ PvsAfterScout)
    \/ (WithinReach /\ PvsAfterFull)
    \/ (WithinReach /\ QuiesEntry)
    \/ (WithinReach /\ QuiesLoop)
    \/ (WithinReach /\ QuiesAfterChild)

SpecDeep == InitDeep /\ [][NextDeep]_vars

\* C28: the ply of every node a search visits is at most MAX_DEPTH, and at
\* most MAX_DEPTH + 1 at the node where quies stops
C28_PlyWithinMaxDepth == Len(stack) > 0 => PlyOf(board, ss) <= PlyAllowed

(***************************************************************************)
(* The transposition table by itself: add_record and find_record called    *)
(* at the nodes of a line of moves that comes back to its first position   *)
(* four plies later, on Board's table (do_move, undo_move) or on that of a *)
(* SearchState (push_move, pop_move).                                      *)
(***************************************************************************)
\* 5k3/9/9/9/9/R8/9/9/9/3K5 w
FEN_TABLE ==
    <<"5", "k", "3", "/", "9", "/", "9", "/", "9", "/", "9", "/", "R", "8", "/", "9", "/", "9", "/", "9", "/", "3", "K", "5", " ", "w">>

\* the Rook goes from a4 to f4 and back, the King from f9 to e9 and back; the
\* position after two of these moves has the slot of the first position
TableTrips ==
    {<<Pos(5, 0), Pos(5, 5)>>, <<Pos(5, 5), Pos(5, 0)>>,
     <<Pos(0, 5), Pos(0, 4)>>, <<Pos(0, 4), Pos(0, 5)>>}

TableMoves(b) ==
    {m \in Generated(b) : <<m.from, m.to>> \in TableTrips /\ is_move_legal(b, m)}

MaxTablePly == 4
MaxStores == 2
MaxTableDepth == 1

\* the scores and flags the calls of SpecScore are made with; those of
\* SpecTable are made with the score 0 and the flag Exact
TableValues == {MIN, -MATE_BAND - 1, -MATE_BAND, 0, MATE_BAND, MATE_BAND + 1, MAX}

TableFlags == {"Exact", "Alpha"}

TableAlphas == {MIN, MAX}

\* what is remembered of the calls: the number of add_record calls, the last
\* call that wrote (written), and the last call made
NoCall == [op |-> "init", stores |-> 0, written |-> [wrote |-> FALSE]]

InitTable ==
    /\ board = from_fen(FEN_TABLE)
    /\ ss = SearchState_new
    /\ held = <<>>
    /\ last = NoCall
    /\ stack = <<>>
    /\ ret = NoRet
    /\ run \in {IdleRun("Board"), IdleRun("SearchState")}

\* the search makes a move of the line
TableDoMove ==
    /\ Len(held) < MaxTablePly
    /\ \E m \in TableMoves(board) :
          /\ \E out \in {search_do_move(run.impl, Now, m)} : board' = out.board /\ ss' = out.ss
          /\ held' = Push(held, [kind |-> "do", m |-> m, pre |-> Core(board)])
    /\ UNCHANGED <<last, stack, ret, run>>

\* the search takes back its last move (pop_move lowers the ply counter of the
\* Board, which push_move did not raise: at most MaxDrift times)
TableUndoMove ==
    /\ Len(held) > 0
    /\ board.distance > -MaxDrift
    /\ \E out \in {search_undo_move(run.impl, Now, held[Len(held)].m)} :
          board' = out.board /\ ss' = out.ss
    /\ held' = Pop(held)
    /\ UNCHANGED <<last, stack, ret, run>>

\* add_record at the node the search is at, at most stores times
TableAddRecord(values, flags, stores) ==
    /\ last.stores < stores
    /\ \E depth \in 0..MaxTableDepth, value \in values, flag \in flags :
          \E out \in {search_add(run.impl, Now, depth, value, flag, None)} :
             LET index == record_index(board.zobrist_value)
                 before == RecordsOf(board, ss)
                 after == RecordsOf(out.board, out.ss)
                 call == [value |-> value, depth |-> depth, flag |-> flag, index |-> index,
                          ply |-> PlyOf(board, ss), lock |-> board.zobrist_value_lock,
                          old |-> IF index \in DOMAIN before THEN Some(before[index]) ELSE None,
                          wrote |-> after # before]
             IN  /\ board' = out.board
                 /\ ss' = out.ss
                 /\ last' = [op |-> "add_record", stores |-> last.stores + 1, call |-> call,
                             written |-> IF call.wrote THEN call ELSE last.written]
    /\ UNCHANGED <<held, stack, ret, run>>

\* find_record at the node the search is at
TableFindRecord ==
    /\ \E alpha \in TableAlphas, depth \in 0..MaxTableDepth :
          last' = [op |-> "find_record", stores |-> last.stores, written |-> last.written,
                   alpha |-> alpha, beta |-> MAX, depth |-> depth, ply |-> PlyOf(board, ss),
                   lock |-> board.zobrist_value_lock,
                   found |-> search_find(run.impl, Now, alpha, MAX, depth)]
    /\ UNCHANGED <<board, ss, held, stack, ret, run>>

\* several add_record calls with one score
NextTable ==
    \/ TableDoMove
    \/ TableUndoMove
    \/ TableAddRecord({0}, {"Exact"}, MaxStores)
    \/ TableFindRecord

SpecTable == InitTable /\ [][NextTable]_vars

\* one add_record call with any of the scores
NextScore ==
    \/ TableDoMove
    \/ TableUndoMove
    \/ TableAddRecord(TableValues, TableFlags, 1)
    \/ TableFindRecord

SpecScore == InitTable /\ [][NextScore]_vars

\* C29: across the add_record calls a slot that holds a record goes on
\* holding one, what it holds is replaced only by a record of a depth that is
\* not below the depth it held (whatever position the record it held belongs
\* to), and so the depth it holds never goes down
C29_SlotDepthNeverDecreases ==
    [][\A index \in DOMAIN RecordsOf(board, ss) :
          LET old == RecordsOf(board, ss)[index]
              after == RecordsOf(board', ss')
          IN  /\ index \in DOMAIN after
              /\ after[index].depth >= old.depth
              /\ after[index] # old =>
                    /\ last'.op = "add_record"
                    /\ last'.call.index = index
                    /\ last'.call.depth >= old.depth
                    /\ after[index].depth = last'.call.depth]_vars

\* add_record has replaced the record of another position by one of the same
\* depth, after which an add_record of a lower depth would be refused
C29_Witness ==
    /\ last.op = "add_record"
    /\ last.call.wrote
    /\ is_some(last.call.old)
    /\ unwrap(last.call.old).zobrist_lock # last.call.lock
    /\ unwrap(last.call.old).depth = last.call.depth
    /\ last.call.depth > 0
    /\ board.zobrist_value_lock = last.call.lock
    /\ search_add(run.impl, Now, 0, 0, "Exact", None) = Now

\* the score find_record gives back at ply q for a score v stored at ply p
Normalized(v, p, q) ==
    IF v > 30000 THEN v + p - q
    ELSE IF v < -30000 THEN v - p + q
    ELSE v

\* find_record was called at the position whose record add_record wrote last
ReadsBack ==
    /\ last.op = "find_record"
    /\ last.written.wrote
    /\ last.written.lock = last.lock
    /\ last.written.ply >= 0
    /\ last.ply >= 0

\* C30: a score v stored at ply p and read back for the same position at ply q
\* comes back as v + p - q when v > 30000, as v - p + q when v < -30000 and
\* as v otherwise (so as v whenever q = p); it does come back when the record
\* is Exact and as deep as the probe asks
C30_ScoreComesBackNormalized ==
    ReadsBack =>
        /\ is_some(last.found.value) =>
              unwrap(last.found.value) = Normalized(last.written.value, last.written.ply, last.ply)
        /\ (last.written.flag = "Exact" /\ last.written.depth >= last.depth) =>
              is_some(last.found.value)
        /\ (is_some(last.found.value) /\ last.ply = last.written.ply) =>
              unwrap(last.found.value) = last.written.value

\* a mate score stored at ply 0 has been read back at ply 4
C30_Witness ==
    /\ ReadsBack
    /\ last.written.value = MAX
    /\ last.written.ply = 0
    /\ last.ply = 4
    /\ last.found.value = Some(MAX - 4)

(***************************************************************************)
(* Null moves and the repetition score.  The search walks a line of moves  *)
(* and null moves and asks rep_value for the score of a repetition status. *)
(***************************************************************************)
MaxNullPly == 3

\* the statuses rep_status can return: bit 0 with the bits 2 and 4
RepStatuses == 0..7

\* what the null moves leave alone, and the ply counter beside it
NullFrame(b, s) ==
    [chesses |-> b.chesses, zobrist_value |-> b.zobrist_value,
     zobrist_value_lock |-> b.zobrist_value_lock, vl_red |-> b.vl_red, vl_black |-> b.vl_black,
     board_moves |-> b.move_history, board_checks |-> b.check_history,
     ss_moves |-> s.move_history, ss_checks |-> s.check_history]

InitNull ==
    /\ board = from_fen(FEN_TABLE)
    /\ ss = SearchState_new
    /\ held = <<>>
    /\ last = [op |-> "init"]
    /\ stack = <<>>
    /\ ret = NoRet
    /\ run \in {IdleRun("Board"), IdleRun("SearchState")}

\* the search makes a move of the line
NullDoMove ==
    /\ Len(held) < MaxNullPly
    /\ \E m \in TableMoves(board) :
          /\ \E out \in {search_do_move(run.impl, Now, m)} : board' = out.board /\ ss' = out.ss
          /\ held' = Push(held, [kind |-> "do", m |-> m])
    /\ last' = [op |-> "do_move"]
    /\ UNCHANGED <<stack, ret, run>>

\* the search takes back its last move
NullUndoMove ==
    /\ Len(held) > 0
    /\ held[Len(held)].kind = "do"
    /\ board.distance > -MaxDrift
    /\ \E out \in {search_undo_move(run.impl, Now, held[Len(held)].m)} :
          board' = out.board /\ ss' = out.ss
    /\ held' = Pop(held)
    /\ last' = [op |-> "undo_move"]
    /\ UNCHANGED <<stack, ret, run>>

\* do_null_move, or push_null_move, as the null-move pruning step calls it
NullDoNullMove ==
    /\ Len(held) < MaxNullPly
    /\ (Len(held) > 0 => held[Len(held)].kind # "null")
    /\ \E out \in {search_do_null(run.impl, Now)} : board' = out.board /\ ss' = out.ss
    /\ held' = Push(held, [kind |-> "null", m |-> NullEntry, turn |-> board.turn,
                           ply |-> PlyOf(board, ss), board_ply |-> board.distance])
    /\ last' = [op |-> "do_null_move", pre |-> NullFrame(board, ss)]
    /\ UNCHANGED <<stack, ret, run>>

\* undo_null_move, or pop_null_move, at once or after the moves made below the
\* null move were taken back (push_move and pop_move move the Board's own
\* counter apart from the SearchState's)
NullUndoNullMove ==
    /\ Len(held) > 0
    /\ held[Len(held)].kind = "null"
    /\ \E out \in {search_undo_null(run.impl, Now)} : board' = out.board /\ ss' = out.ss
    /\ held' = Pop(held)
    /\ last' = [op |-> "undo_null_move", pre |-> NullFrame(board, ss),
                turn |-> held[Len(held)].turn, ply |-> held[Len(held)].ply,
                board_ply |-> held[Len(held)].board_ply, at_once |-> last.op = "do_null_move"]
    /\ UNCHANGED <<stack, ret, run>>

\* rep_value for a status at the node the search is at
NullRepValue ==
    /\ \E status \in RepStatuses :
          last' = [op |-> "rep_value", status |-> status, ply |-> PlyOf(board, ss),
                   value |-> search_rep_value(run.impl, Now, status)]
    /\ UNCHANGED <<board, ss, held, stack, ret, run>>

NextNull ==
    \/ NullDoMove
    \/ NullUndoMove
    \/ NullDoNullMove
    \/ NullUndoNullMove
    \/ NullRepValue

SpecNull == InitNull /\ [][NextNull]_vars

\* the statuses with the bit of value 2, and those with the bit of value 4
SelfPerpetual == {2, 3, 6, 7}
OtherPerpetual == {4, 5, 6, 7}

\* C31: rep_value returns -BAN + ply when the status has bit 2 (also when it
\* has bit 4 as well), otherwise BAN - ply when it has bit 4, otherwise -20 at
\* an even ply and 20 at an odd ply
C31_RepValueByStatus ==
    last.op = "rep_value" =>
        /\ last.status \in SelfPerpetual => last.value = last.ply - BAN_VAL
        /\ last.status \in OtherPerpetual \ SelfPerpetual => last.value = BAN_VAL - last.ply
        /\ last.status \notin SelfPerpetual \cup OtherPerpetual =>
              \/ last.value = -20 /\ \E half \in -MaxDrift..MaxNullPly : last.ply = 2 * half
              \/ last.value = 20 /\ \E half \in -MaxDrift..MaxNullPly : last.ply = 2 * half + 1

\* rep_value was asked, two plies down, for a status with both perpetual bits
C31_Witness ==
    /\ last.op = "rep_value"
    /\ last.status = 7
    /\ last.ply = 2
    /\ last.value = 2 - BAN_VAL

\* C32: undo_null_move after do_null_move gives back the side to move and the
\* ply counter, and neither call changes the grid, the hashes, the evaluation
\* sums, the move history or the check history
C32_NullMoveFrame ==
    /\ last.op \in {"do_null_move", "undo_null_move"} => NullFrame(board, ss) = last.pre
    /\ last.op = "undo_null_move" =>
          /\ board.turn = last.turn
          /\ PlyOf(board, ss) = last.ply
          /\ last.at_once => board.distance = last.board_ply

\* a null move made one move down the line has been taken back
C32_Witness ==
    /\ last.op = "undo_null_move"
    /\ last.at_once
    /\ Len(held) = 1
    /\ board.distance = last.board_ply
    /\ board.turn = last.turn
    /\ PlyOf(board, ss) = 1
    /\ NullFrame(board, ss) = last.pre

(***************************************************************************)
(* The size of the transposition table.                                    *)
(***************************************************************************)
\* the number a set of bit positions below INDEX_BITS stands for
RECURSIVE BitsValue(_, _)
BitsValue(bits, k) ==
    IF k >= INDEX_BITS THEN 0
    ELSE (IF k \in bits THEN 2 ^ k ELSE 0) + BitsValue(bits, k + 1)

\* the slot a hash would select in a table of 2^INDEX_BITS slots
LowBits(zobrist_value) == zobrist_value \cap (0..(INDEX_BITS - 1))

\* the index the table computes lies inside the vector of RECORD_SIZE slots
IndexInsideTable == BitsValue(record_index(board.zobrist_value), 0) < RECORD_SIZE

\* a slot is selected by some hash exactly when it is selected by the hash
\* equal to its own number (the index is a mask of the hash)
SlotSelectable(slot) == record_index(slot) = slot

\* C33: the slot count is a power of two, the index zob & (size - 1) is inside
\* the table, and every slot of the table is selected by some zob value (here:
\* the slot named by the low bits of the hash of the position)
C33_SlotCountIsPowerOfTwo ==
    /\ \E k \in 0..30 : RECORD_SIZE = 2 ^ k
    /\ IndexInsideTable
    /\ BitsValue(LowBits(board.zobrist_value), 0) < RECORD_SIZE =>
          SlotSelectable(LowBits(board.zobrist_value))

(***************************************************************************)
(* Move ordering: the killer table, the history table and sort_moves, as   *)
(* the search calls them at a node.                                        *)
(***************************************************************************)
\* 4k4/9/9/3pPr3/9/4N4/9/9/9/3K5 w: the Pawn and the Knight can each take the
\* Rook or the Pawn, and Red has 13 moves
FEN_ORDER ==
    <<"4", "k", "4", "/", "9", "/", "9", "/", "3", "p", "P", "r", "3", "/", "9", "/",
      "4", "N", "4", "/", "9", "/", "9", "/", "9", "/", "3", "K", "5", " ", "w">>

MaxKillerCalls == 3
MaxHistoryCalls == 2

\* Pawn takes Rook, Knight takes Pawn, and the quiet moves of the King and of
\* the Pawn
PawnTakesRook == <<Pos(3, 4), Pos(3, 5)>>
KnightTakesPawn == <<Pos(5, 4), Pos(3, 3)>>
KingUp == <<Pos(9, 3), Pos(8, 3)>>
PawnUp == <<Pos(3, 4), Pos(2, 4)>>

MovesAmong(b, trips) == {m \in Generated(b) : <<m.from, m.to>> \in trips}

\* the plies update_killer_move is called with: two plies of the table, its
\* last ply, and the first ply beyond it
KillerPlies == {0, 1, MAX_DEPTH - 1, MAX_DEPTH}

\* the depths update_history is called with
HistoryDepths == {1, 4}

KillersOf(b, s) == IF run.impl = "Board" THEN b.killer_table ELSE s.killer_table

HistoryOf(b, s) == IF run.impl = "Board" THEN b.history_table ELSE s.history_table

InitOrder ==
    /\ board = from_fen(FEN_ORDER)
    /\ ss = SearchState_new
    /\ held = <<>>
    /\ last = [op |-> "init", killers |-> 0, histories |-> 0]
    /\ stack = <<>>
    /\ ret = NoRet
    /\ run \in {IdleRun("Board"), IdleRun("SearchState")}

\* update_killer_move
OrderUpdateKiller ==
    /\ last.killers < MaxKillerCalls
    /\ \E mv \in MovesAmong(board, {KnightTakesPawn, KingUp, PawnUp}), depth \in KillerPlies :
          /\ IF run.impl = "Board"
             THEN board' = update_killer_move(board, mv, depth) /\ ss' = ss
             ELSE ss' = ss_update_killer_move(ss, mv, depth) /\ board' = board
          /\ last' = [op |-> "update_killer_move", killers |-> last.killers + 1,
                      histories |-> last.histories, mv |-> mv, depth |-> depth,
                      before |-> KillersOf(board, ss)]
    /\ UNCHANGED <<held, stack, ret, run>>

\* update_history
OrderUpdateHistory ==
    /\ last.histories < MaxHistoryCalls
    /\ \E mv \in MovesAmong(board, {KingUp}), depth \in HistoryDepths :
          /\ IF run.impl = "Board"
             THEN board' = update_history(board, mv, depth) /\ ss' = ss
             ELSE ss' = ss_update_history(ss, mv, depth) /\ board' = board
          /\ last' = [op |-> "update_history", killers |-> last.killers,
                      histories |-> last.histories + 1, mv |-> mv, depth |-> depth]
    /\ UNCHANGED <<held, stack, ret, run>>

\* SearchState::reset, after which the killer and history tables are empty
OrderReset ==
    /\ run.impl = "SearchState"
    /\ last.killers + last.histories > 0
    /\ ss' = reset(ss)
    /\ last' = [op |-> "reset", killers |-> last.killers, histories |-> last.histories]
    /\ UNCHANGED <<board, held, stack, ret, run>>

\* sort_moves on the generated moves of the node, with or without a hash move
OrderSortMoves ==
    /\ \E hash_move \in {None} \cup {Some(m) : m \in MovesAmong(board, {PawnUp})} :
          \E moves \in {generate_move(board, FALSE)} :
             /\ Len(moves) <= SortBound
             /\ \E sorted \in (IF run.impl = "Board" THEN sort_moves(board, moves, hash_move)
                                ELSE ss_sort_moves(ss, moves, hash_move)) :
                   last' = [op |-> "sort_moves", killers |-> last.killers,
                            histories |-> last.histories, moves |-> moves,
                            hash_move |-> hash_move, sorted |-> sorted]
    /\ UNCHANGED <<board, ss, held, stack, ret, run>>

NextOrder ==
    \/ OrderUpdateKiller
    \/ OrderUpdateHistory
    \/ OrderReset
    \/ OrderSortMoves

SpecOrder == InitOrder /\ [][NextOrder]_vars

\* C34: the two killers of a ply are never the same move; update_killer_move
\* with move m at a ply of the table leaves m in slot 0, puts the move that
\* was in slot 0 in slot 1 exactly when it differs from m, and changes no
\* other ply; at a ply beyond the table it changes nothing
C34_KillerSlotsDiffer ==
    /\ \A d \in 0..(MAX_DEPTH - 1) :
          is_some(KillersOf(board, ss)[d][1]) => KillersOf(board, ss)[d][1] # KillersOf(board, ss)[d][2]
    /\ last.op = "update_killer_move" =>
          LET now == KillersOf(board, ss)
              old == last.before
          IN  IF last.depth >= MAX_DEPTH THEN now = old
              ELSE /\ now[last.depth][1] = Some(last.mv)
                   /\ now[last.depth][2] =
                         IF is_some(old[last.depth][1]) /\ old[last.depth][1] # Some(last.mv)
                         THEN old[last.depth][1] ELSE old[last.depth][2]
                   /\ \A d \in 0..(MAX_DEPTH - 1) : d # last.depth => now[d] = old[d]

\* the third call at a ply brings the move of slot 1 back to slot 0 and moves
\* the other to slot 1
C34_Witness ==
    /\ last.op = "update_killer_move"
    /\ last.depth = 1
    /\ is_some(last.before[1][2])
    /\ last.before[1][2] = Some(last.mv)
    /\ KillersOf(board, ss)[1] = <<Some(last.mv), last.before[1][1]>>
    /\ KillersOf(board, ss)[0] = <<None, None>>

\* 10 x the material value of the captured piece less that of the mover; a
\* move that takes nothing scores 0
MvvLva(m) ==
    IF m.capture # NoChess THEN 10 * material_value(m.capture) - material_value(m.chess) ELSE 0

\* the class of a move in the order of sort_moves at the node: the hash move,
\* the killer of slot 0, the killer of slot 1, the rest
OrderClass(m) ==
    LET killers == KillersOf(board, ss)[PlyOf(board, ss)]
    IN  IF last.hash_move = Some(m) THEN 0
        ELSE IF killers[1] = Some(m) THEN 1
        ELSE IF killers[2] = Some(m) THEN 2
        ELSE 3

\* sort_moves gives back the moves it was given, each once
SortedIsPermutation ==
    last.op = "sort_moves" =>
        /\ Len(last.sorted) = Len(last.moves)
        /\ \A k \in 1..Len(last.moves) :
              Cardinality({p \in 1..Len(last.sorted) : last.sorted[p] = last.moves[k]}) = 1

\* the hash move, then the killer of slot 0, then the killer of slot 1, then
\* the rest
SortedByClass ==
    last.op = "sort_moves" =>
        \A i, j \in 1..Len(last.sorted) :
            i < j => OrderClass(last.sorted[i]) <= OrderClass(last.sorted[j])

\* C35: sort_moves puts the hash move first, then the two killers of the ply
\* in slot order, then the other moves by decreasing MVV/LVA score, the history
\* counter ordering only moves of equal MVV/LVA score
C35_SortedByMvvLvaThenHistory ==
    /\ SortedIsPermutation
    /\ SortedByClass
    /\ last.op = "sort_moves" =>
          \A i, j \in 1..Len(last.sorted) :
              (i < j /\ OrderClass(last.sorted[i]) = 3 /\ OrderClass(last.sorted[j]) = 3) =>
                  \/ MvvLva(last.sorted[i]) > MvvLva(last.sorted[j])
                  \/ /\ MvvLva(last.sorted[i]) = MvvLva(last.sorted[j])
                     /\ HistoryGet(HistoryOf(board, ss), last.sorted[i])
                           >= HistoryGet(HistoryOf(board, ss), last.sorted[j])

(***************************************************************************)
(* Capture generation: generate_move(true) beside generate_move(false) in  *)
(* the positions of a short game.                                          *)
(***************************************************************************)
MaxCapturePly == 1

CapturePositions ==
    RulePositions \cup {from_fen(FEN_ORDER), from_fen(FEN_TAKE), from_fen(FEN_LOOP)}

InitCapture ==
    /\ board \in CapturePositions
    /\ ss = SearchState_new
    /\ held = <<>>
    /\ last = [op |-> "init"]
    /\ NoSearch

\* Board::apply_move on a generated move
CaptureApplyMove ==
    /\ Len(held) < MaxCapturePly
    /\ \E m \in Generated(board) :
          /\ board' = apply_move(board, m)
          /\ held' = Push(held, [kind |-> "apply", m |-> m])
    /\ last' = [op |-> "apply_move"]
    /\ UNCHANGED <<ss, stack, ret, run>>

\* Board::generate_move(true) and Board::generate_move(false) in the position
CaptureGenerateMove ==
    /\ last' = [op |-> "generate_move", captures |-> generate_move(board, TRUE),
                all |-> generate_move(board, FALSE)]
    /\ UNCHANGED <<board, ss, held, stack, ret, run>>

NextCapture ==
    \/ CaptureApplyMove
    \/ CaptureGenerateMove

SpecCapture == InitCapture /\ [][NextCapture]_vars

\* the target of the move holds a piece of the side not to move
TakesEnemy(m) == belong_to(chess_at(board, m.to), next(board.turn))

\* C36: generate_move(true) returns exactly the moves of generate_move(false)
\* whose target holds a piece of the other side, never a move to an empty
\* square or onto a piece of the side to move
C36_CapturesAreTheTakingMoves ==
    last.op = "generate_move" =>
        /\ Range(last.captures) = {m \in Range(last.all) : TakesEnemy(m)}
        /\ Len(last.captures) = Cardinality(Range(last.captures))
        /\ \A k \in 1..Len(last.captures) :
              /\ chess_at(board, last.captures[k].to) # NoChess
              /\ ~belong_to(chess_at(board, last.captures[k].to), board.turn)
              /\ last.captures[k].capture = chess_at(board, last.captures[k].to)

\* a position one move into a game where some moves take and some do not
C36_Witness ==
    /\ last.op = "generate_move"
    /\ Len(held) = 1
    /\ Len(last.captures) > 1
    /\ Len(last.captures) < Len(last.all)

(***************************************************************************)
(* The opening book.  UCCIEngine::new reads it from the lines of a text,   *)
(* search_in_book looks the engine's position up in it, go prints what it  *)
(* found and get_book_move (the GUI's way in) parses it first.  Here the   *)
(* variable held is the engine's book.                                     *)
(***************************************************************************)
\* one rank of a book FEN: the inner loop of parse_fen_for_zobrist, which
\* leaves out a piece outside the grid
RECURSIVE BookFenRow(_, _, _, _, _)
BookFenRow(chesses, row, i, j, k) ==
    IF k > Len(row) THEN chesses
    ELSE IF is_numeric(row[k])
    THEN BookFenRow(chesses, row, i, j + unwrap(to_digit(row[k])), k + 1)
    ELSE With(IF is_some(FEN_MAP(row[k])) /\ i < 10 /\ j < 9
              THEN set_chess(chesses, Pos(i, j), unwrap(FEN_MAP(row[k])))
              ELSE chesses,
              LAMBDA placed : BookFenRow(placed, row, i, j + 1, k + 1))

RECURSIVE BookFenRows(_, _, _, _)
BookFenRows(chesses, rows, lo, hi) ==
    IF lo > hi THEN chesses
    ELSE IF lo = hi THEN BookFenRow(chesses, rows[lo + 1], lo, 0, 1)
    ELSE With(BookFenRows(chesses, rows, lo, (lo + hi) \div 2),
              LAMBDA filled : BookFenRows(filled, rows, (lo + hi) \div 2 + 1, hi))

\* UCCIEngine::parse_fen_for_zobrist: the two hashes of a FEN, or None when
\* a numeric character of the position has no digit value (to_digit(10)?) or
\* the FEN names no side to move
parse_fen_for_zobrist(fen) ==
    With(split(fen, " "), LAMBDA parts :
        IF HasDigitless(parts[1]) THEN None
        ELSE IF Len(parts) < 2 THEN None
        ELSE With(split(parts[1], "/"), LAMBDA rows :
             With(BookFenRows(EmptyGrid, rows, 0, Len(rows) - 1), LAMBDA chesses :
             With(IF parts[2] = <<"b">> THEN "Black" ELSE "Red", LAMBDA player :
                  Some([zobrist_value |-> calc_chesses("zob", chesses, player),
                        zobrist_value_lock |-> calc_chesses("lock", chesses, player)])))))

\* the largest i32
I32_MAX == -(I32_MIN + 1)

\* the digits of str::parse::<i32> from character k on: acc is the number
\* read so far, built upwards after "+" or no sign and downwards after "-";
\* None at a character that is no ASCII digit and when the number leaves
\* the i32 range
RECURSIVE ParseDigits(_, _, _, _)
ParseDigits(text, k, acc, negative) ==
    IF k > Len(text) THEN Some(acc)
    ELSE IF text[k] \notin AsciiDigits THEN None
    ELSE With(unwrap(to_digit(text[k])), LAMBDA d :
         IF negative
         THEN IF acc < (I32_MIN + d + 9) \div 10 THEN None
              ELSE ParseDigits(text, k + 1, acc * 10 - d, negative)
         ELSE IF acc > (I32_MAX - d) \div 10 THEN None
              ELSE ParseDigits(text, k + 1, acc * 10 + d, negative))

\* str::parse::<i32>: the number the text writes, or None (an empty text, a
\* sign alone, a character that is no ASCII digit, a number outside the range)
parse_i32(text) ==
    IF Len(text) = 0 THEN None
    ELSE IF text[1] \in {"-", "+"}
    THEN IF Len(text) = 1 THEN None ELSE ParseDigits(text, 2, 0, text[1] = "-")
    ELSE ParseDigits(text, 1, 0, FALSE)

\* str::trim: the line without the white space before and after it
trim(str) ==
    LET inked == {k \in 1..Len(str) : str[k] \notin WhiteSpace}
    IN  IF inked = {} THEN <<>>
        ELSE SubSeq(str, CHOOSE k \in inked : \A j \in inked : k <= j,
                         CHOOSE k \in inked : \A j \in inked : j <= k)

\* the closures of UCCIEngine::new applied to one line of the text: the line
\* is trimmed, and is the entry of move, weight and FEN (the FEN being the rest
\* of the line) or None
PreLoadOf(text_line) ==
    With(trim(text_line), LAMBDA line :
    With(split(line, " "), LAMBDA tokens :
        IF Len(tokens) < 3 THEN None
        ELSE With(SubSeq(line, Len(tokens[1]) + Len(tokens[2]) + 3, Len(line)), LAMBDA fen :
             With(parse_fen_for_zobrist(fen), LAMBDA hashes :
             With(parse_i32(tokens[2]), LAMBDA weight :
                  IF ~is_some(hashes) \/ ~is_some(weight) THEN None
                  ELSE Some([zobrist_value |-> unwrap(hashes).zobrist_value,
                             zobrist_value_check |-> unwrap(hashes).zobrist_value_lock,
                             best_move |-> tokens[1],
                             weight |-> unwrap(weight)]))))))

\* the order of two 64-bit hashes, a hash being the set of its bits
HashLess(a, b) ==
    a # b /\ (CHOOSE bit \in Xor(a, b) : \A other \in Xor(a, b) : other <= bit) \in b

\* the books UCCIEngine::new can build from the lines: the entries of the
\* lines that parse, sorted by zobrist_value (sort_unstable_by: entries of
\* equal zobrist_value in any order)
BooksOf(lines) ==
    LET kept == {k \in 1..Len(lines) : is_some(PreLoadOf(lines[k]))}
        orders == {f \in [1..Cardinality(kept) -> kept] :
                      /\ \A i, j \in 1..Cardinality(kept) : i # j => f[i] # f[j]
                      /\ \A i, j \in 1..Cardinality(kept) :
                            i < j => ~HashLess(unwrap(PreLoadOf(lines[f[j]])).zobrist_value,
                                               unwrap(PreLoadOf(lines[f[i]])).zobrist_value)}
    IN  {[i \in 1..Cardinality(kept) |-> unwrap(PreLoadOf(lines[f[i]]))] : f \in orders}

\* UCCIEngine::search_in_book: what it can return.  binary_search_by finds
\* one entry of the position's zobrist_value (any of them when there are
\* several), and that entry is kept when its check value is the position's
\* lock; candidates then has at most one entry, and the random index is 0
search_in_book(b, book) ==
    LET found == {k \in 1..Len(book) : book[k].zobrist_value = b.zobrist_value}
    IN  IF found = {} THEN {None}
        ELSE {IF book[k].zobrist_value_check = b.zobrist_value_lock
              THEN Some(book[k].best_move) ELSE None : k \in found}

\* UCCIEngine::parse_move_string: what it can return.  A text that is not
\* four bytes long gives None; split_at(2) panics inside a character, and
\* nothing is returned; where a subtraction of Position::from overflows, the
\* build that wraps around goes on to return
parse_move_string(b, move_str) ==
    IF Len(as_bytes(move_str)) # 4 THEN {None}
    ELSE With(split_at(move_str, 2), LAMBDA halves :
         IF ~is_some(halves) THEN {}
         ELSE With(EntryMove(b, unwrap(halves)), LAMBDA m :
                   {IF is_move_legal(b, m) THEN Some(m) ELSE None}))

\* parse_move_string can panic: in split_at(2), or in a subtraction of
\* Position::from in the build that checks for overflow
parse_move_string_panics(move_str) ==
    IF Len(as_bytes(move_str)) # 4 THEN FALSE
    ELSE With(split_at(move_str, 2), LAMBDA halves :
         IF ~is_some(halves) THEN TRUE
         ELSE IF PositionFrom(unwrap(halves)[1]).overflow THEN TRUE
         ELSE PositionFrom(unwrap(halves)[2]).overflow)

\* UCCIEngine::get_book_move: what it can return
get_book_move(b, book) ==
    UNION {IF is_some(found) THEN parse_move_string(b, unwrap(found)) ELSE {None} :
              found \in search_in_book(b, book)}

\* get_book_move can panic
get_book_move_panics(b, book) ==
    \E found \in search_in_book(b, book) :
        IF is_some(found) THEN parse_move_string_panics(unwrap(found)) ELSE FALSE

BookLine(move_str, weight, fen) == move_str \o <<" ">> \o weight \o <<" ">> \o fen

\* the lines of the books: for the start position a Cannon move, the Rook
\* through its own Pawn and a move of three characters; for FEN_TAKE the Rook
\* taking the Pawn, a King move of two steps and a line whose weight is no
\* number; the Cannon move between blanks, and a line of blanks; the Cannon
\* move with a weight of 2^31, with a position that begins with U+00B2
\* (SUPERSCRIPT TWO), and between a form feed and U+00A0 (NO-BREAK SPACE);
\* for FEN_TAKE a move of four bytes in three characters (U+00E9, LATIN
\* SMALL LETTER E WITH ACUTE) and a move whose file is a capital letter
BookLines ==
    [cannon |-> BookLine(<<"h", "2", "e", "2">>, <<"1", "0">>, FEN_START \o FenTail),
     through |-> BookLine(<<"a", "0", "a", "5">>, <<"5">>, FEN_START \o FenTail),
     short |-> BookLine(<<"h", "2", "e">>, <<"-", "1">>, FEN_START \o FenTail),
     rook |-> BookLine(<<"a", "0", "a", "1">>, <<"3">>, FEN_TAKE \o FenTail),
     king |-> BookLine(<<"d", "0", "d", "2">>, <<"2">>, FEN_TAKE \o FenTail),
     unweighed |-> BookLine(<<"a", "0", "a", "1">>, <<"x">>, FEN_TAKE \o FenTail),
     indented |-> <<" ", " ">> \o BookLine(<<"h", "2", "e", "2">>, <<"1", "0">>,
                                           FEN_START \o FenTail) \o <<" ">>,
     blank |-> <<" ", " ">>,
     heavy |-> BookLine(<<"h", "2", "e", "2">>,
                        <<"2", "1", "4", "7", "4", "8", "3", "6", "4", "8">>,
                        FEN_START \o FenTail),
     digitless |-> BookLine(<<"h", "2", "e", "2">>, <<"1", "0">>, <<"U+00B2", "k", " ", "w">>),
     feed |-> <<"\f">> \o BookLine(<<"h", "2", "e", "2">>, <<"1", "0">>,
                                    FEN_START \o FenTail) \o <<"U+00A0">>,
     wide |-> BookLine(<<"a", "U+00E9", "2">>, <<"3">>, FEN_TAKE \o FenTail),
     under |-> BookLine(<<"A", "0", "a", "1">>, <<"3">>, FEN_TAKE \o FenTail)]

\* the texts the engine is built from; each has a line for the start position
\* (SpecSearch has the searches of an engine without a book)
BookTexts ==
    {<<BookLines.indented, BookLines.through>>,
     <<BookLines.short, BookLines.blank, BookLines.rook, BookLines.heavy>>,
     <<BookLines.king, BookLines.unweighed, BookLines.through, BookLines.digitless>>,
     <<BookLines.feed, BookLines.wide>>,
     <<BookLines.through, BookLines.under>>}

\* the position commands the engine is sent
BookParams ==
    {[head |-> "startpos", fen |-> <<>>, moves |-> <<>>],
     [head |-> "fen", fen |-> FEN_TAKE \o FenTail, moves |-> <<>>],
     [head |-> "fen", fen |-> FEN_ONE \o FenTail, moves |-> <<>>]}

\* bounds: the engine is sent at most MaxBookCommands position commands, and
\* at most MaxGos go commands whose depths add up to at most MaxDepthBudget
MaxBookCommands == 2

\* UCCIEngine::new
InitBook ==
    /\ board = Board_init
    /\ ss = SearchState_new
    /\ held \in UNION {BooksOf(text) : text \in BookTexts}
    /\ last = [op |-> "init", commands |-> 0]
    /\ stack = <<>>
    /\ ret = NoRet
    /\ run = IdleRun("Board")

\* the engine is between two commands
BetweenCommands == run.status \in {"idle", "done"} /\ stack = <<>>

\* UCCIEngine::position
BookPosition ==
    /\ BetweenCommands
    /\ last.commands < MaxBookCommands
    /\ \E param \in BookParams : \E out \in {position(board, param)} :
          /\ board' = out.board
          /\ last' = [op |-> "position", commands |-> last.commands + 1]
    /\ UNCHANGED <<ss, held, stack, ret, run>>

\* UCCIEngine::go: a move found in the book is printed as it stands;
\* otherwise the position is searched
BookGo ==
    /\ BetweenCommands
    /\ run.gos < MaxGos
    /\ \E max_depth \in 0..MaxDepthBudget : \E found \in search_in_book(board, held) :
          IF is_some(found)
          THEN /\ last' = [op |-> "go", commands |-> last.commands, pre |-> board,
                           text |-> unwrap(found)]
               /\ run' = [run EXCEPT !.status = "done", !.gos = @ + 1, !.output = "bestmove"]
               /\ UNCHANGED <<board, ss, held, stack, ret>>
          ELSE /\ run.used + max_depth <= MaxDepthBudget
               /\ IterativeDeepeningOf(max_depth)

\* UCCIEngine::get_book_move: it returns, or it panics and the engine is
\* called no more
BookGetBookMove ==
    /\ BetweenCommands
    /\ \E outcome \in {[panicked |-> FALSE, result |-> result] :
                          result \in get_book_move(board, held)}
                     \cup (IF get_book_move_panics(board, held)
                           THEN {[panicked |-> TRUE, result |-> None]} ELSE {}) :
          /\ last' = [op |-> "get_book_move", commands |-> last.commands, pre |-> board,
                      result |-> outcome.result, panicked |-> outcome.panicked]
          /\ run' = IF outcome.panicked THEN [run EXCEPT !.status = "panicked"] ELSE run
    /\ UNCHANGED <<board, ss, held, stack, ret>>

NextBook ==
    \/ BookPosition
    \/ BookGo
    \/ BookGetBookMove
    \/ IterativeDeepeningNext
    \/ PvsEntry
    \/ PvsAfterQuies
    \/ PvsAfterNull
    \/ PvsHash
    \/ PvsAfterHash
    \/ PvsLoop
    \/ PvsAfterScout
    \/ PvsAfterFull
    \/ QuiesEntry
    \/ QuiesLoop
    \/ QuiesAfterChild

SpecBook == InitBook /\ [][NextBook]_vars

\* the text names a legal move of the side to move in the position
TextIsLegalMove(b, text) == \E parsed \in parse_move_string(b, text) : is_some(parsed)

\* C37: a move taken from the book is printed by go, or handed to the host by
\* get_book_move, only when it is a legal move of the side to move in the
\* position it was looked up for
C37_BookMoveCheckedBeforeUse ==
    /\ last.op = "go" => TextIsLegalMove(last.pre, last.text)
    /\ (last.op = "get_book_move" /\ is_some(last.result))
          => is_move_legal(last.pre, unwrap(last.result))

\* the host's half of C37 alone
BookMoveOfHostIsLegal ==
    (last.op = "get_book_move" /\ is_some(last.result))
        => is_move_legal(last.pre, unwrap(last.result))

\* get_book_move has handed out a book move / has withheld one that go prints
HostGotBookMove == last.op = "get_book_move" /\ is_some(last.result)

HostRefusedBookMove ==
    /\ last.op = "get_book_move"
    /\ ~last.panicked
    /\ ~is_some(last.result)
    /\ \E found \in search_in_book(last.pre, held) : is_some(found)

GoPrintedLegalBookMove == last.op = "go" /\ TextIsLegalMove(last.pre, last.text)

(***************************************************************************)
(* The GUI host (ChessApp).  The variable board is its game, ss its        *)
(* ui_search, held the channel of messages not yet received, and run the   *)
(* rest of the host: human_side, ai_thinking, the game's select_pos, the   *)
(* engine's book and the worker threads trigger_ai has spawned.  Two       *)
(* fields are kept for the claims only: run.game counts the NewGame        *)
(* messages handled, and a worker and an AIMove message carry the count of *)
(* the game they were started in.                                          *)
(***************************************************************************)
Msg(kind, x, y, m, side, game) ==
    [kind |-> kind, x |-> x, y |-> y, m |-> m, side |-> side, game |-> game]

ClickMsg(x, y) == Msg("Click", x, y, None, "Red", 0)
UndoMsg == Msg("Undo", 0, 0, None, "Red", 0)
NewGameMsg(side) == Msg("NewGame", 0, 0, None, side, 0)
AIMoveMsg(m, game) == Msg("AIMove", 0, 0, Some(m), "Red", game)

\* bounds: the user presses a button or the board at most MaxEvents times
MaxEvents == 2

\* the squares of the display the user clicks: (x, y) is column x, row y
DisplayClicks == {<<7, 7>>, <<4, 7>>}

\* the books of the host's engine: none, and one line for the start position
HostBooks == {<<>>} \cup BooksOf(<<BookLines.cannon>>)

\* the outcomes of the worker's iterative_deepening(board_for_search, 6), whose
\* search is not run here: any legal move of the position searched, or no move
\* when the position has none
SearchResults(b) ==
    LET moves == generate_move(b, FALSE)
        legal == {k \in 1..Len(moves) : is_move_legal(b, moves[k])}
    IN  IF legal = {} THEN {None} ELSE {Some(moves[k]) : k \in legal}

\* ChessApp::new, on a new Board
InitHost ==
    /\ board = Board_init
    /\ ss = SearchState_new
    /\ held = <<>>
    /\ last = [op |-> "init"]
    /\ stack = <<>>
    /\ ret = NoRet
    /\ \E book \in HostBooks :
          run = [human_side |-> "Red", ai_thinking |-> FALSE, select_pos |-> Pos(1, 1),
                 book |-> book, workers |-> {}, spawned |-> 0, game |-> 0, events |-> 0]

Searching == {w \in run.workers : w.pc = "searching"}

CanSend == run.events < MaxEvents

SendEvent(msg, side) ==
    /\ held' = Append(held, msg)
    /\ run' = [run EXCEPT !.events = @ + 1, !.human_side = side]
    /\ UNCHANGED <<board, ss, last, stack, ret>>

\* the callback of side_btn
PressSide == CanSend /\ SendEvent(NewGameMsg(next(run.human_side)), next(run.human_side))

\* the callback of restart_button
PressRestart == CanSend /\ SendEvent(NewGameMsg(run.human_side), run.human_side)

\* the callback of undo_button
PressUndo == CanSend /\ SendEvent(UndoMsg, run.human_side)

\* the handler of board_frame: the board is shown turned to a Black player
PressBoard ==
    CanSend /\ \E xy \in DisplayClicks :
        SendEvent(IF run.human_side = "Black"
                  THEN ClickMsg(BOARD_WIDTH - 1 - xy[1], BOARD_HEIGHT - 1 - xy[2])
                  ELSE ClickMsg(xy[1], xy[2]),
                  run.human_side)

\* ChessApp::trigger_ai: what it can leave of the host and the channel
trigger_ai(b, r, queue) ==
    {IF is_some(book_move)
     THEN [run |-> r, held |-> Append(queue, AIMoveMsg(unwrap(book_move), r.game))]
     ELSE [run |-> [r EXCEPT !.ai_thinking = TRUE, !.spawned = @ + 1,
                             !.workers = @ \cup {[id |-> r.spawned + 1, game |-> r.game,
                                                  root |-> b, pc |-> "searching",
                                                  result |-> None]}],
           held |-> queue] :
        book_move \in get_book_move(b, r.book)}

\* BoardExt::click (with select and move_to)
click(b, s, select_pos, pos) ==
    IF chess_at(b, pos).player = b.turn
    THEN [board |-> b, ss |-> s, select_pos |-> pos]
    ELSE IF chess_at(b, select_pos).player = b.turn
    THEN LET m == Mv(b.turn, select_pos, pos, chess_at(b, select_pos), chess_at(b, pos))
         IN  IF is_move_legal(b, m)
             THEN With(push_move(s, b, m), LAMBDA out :
                       [board |-> out.board, ss |-> out.ss, select_pos |-> select_pos])
             ELSE [board |-> b, ss |-> s, select_pos |-> select_pos]
    ELSE [board |-> b, ss |-> s, select_pos |-> select_pos]

Received(kind) == Len(held) > 0 /\ Head(held).kind = kind

\* Message::Click: ChessApp::handle_click
HandleClick ==
    /\ Received("Click")
    /\ IF run.ai_thinking
       THEN /\ UNCHANGED <<board, ss, run>>
            /\ held' = Tail(held)
            /\ last' = [op |-> "Click", moved |-> FALSE]
       ELSE IF board.turn # run.human_side
       THEN /\ UNCHANGED <<board, ss, run>>
            /\ held' = Tail(held)
            /\ last' = [op |-> "Click", moved |-> FALSE]
       ELSE \E out \in {click(board, ss, run.select_pos, Pos(Head(held).y, Head(held).x))} :
               /\ board' = out.board
               /\ ss' = out.ss
               /\ last' = [op |-> "Click",
                           moved |-> Len(out.ss.move_history) > Len(ss.move_history)]
               /\ IF Len(out.ss.move_history) > Len(ss.move_history)
                  THEN \E after \in trigger_ai(out.board,
                                               [run EXCEPT !.select_pos = out.select_pos],
                                               Tail(held)) :
                          run' = after.run /\ held' = after.held
                  ELSE /\ run' = [run EXCEPT !.select_pos = out.select_pos]
                       /\ held' = Tail(held)
    /\ UNCHANGED <<stack, ret>>

\* Message::AIMove
HandleAIMove ==
    /\ Received("AIMove")
    /\ \E ai_move \in {unwrap(Head(held).m)} :
          IF is_move_legal(board, ai_move)
          THEN /\ \E out \in {push_move(ss, board, ai_move)} :
                     board' = out.board /\ ss' = out.ss
               /\ last' = [op |-> "AIMove", applied |-> TRUE, from_game |-> Head(held).game,
                           to_game |-> run.game]
          ELSE /\ UNCHANGED <<board, ss>>
               /\ last' = [op |-> "AIMove", applied |-> FALSE, from_game |-> Head(held).game,
                           to_game |-> run.game]
    /\ held' = Tail(held)
    /\ UNCHANGED <<stack, ret, run>>

\* the move pop_move is given: the last of move_history, if there is one
PopLast(P) ==
    IF Len(P.ss.move_history) > 0
    THEN pop_move(P.ss, P.board, P.ss.move_history[Len(P.ss.move_history)])
    ELSE P

\* Message::Undo
HandleUndo ==
    /\ Received("Undo")
    /\ IF board.turn = run.human_side
       THEN \E out \in {PopLast(PopLast(Pair(board, ss)))} :
               /\ board' = out.board
               /\ ss' = out.ss
               /\ run' = [run EXCEPT !.select_pos = Pos(-1, -1)]
               /\ last' = [op |-> "Undo", side |-> run.human_side,
                           removed |-> Len(ss.move_history) - Len(out.ss.move_history)]
       ELSE /\ UNCHANGED <<board, ss, run>>
            /\ last' = [op |-> "Undo", side |-> run.human_side, removed |-> 0]
    /\ held' = Tail(held)
    /\ UNCHANGED <<stack, ret>>

\* Message::NewGame
HandleNewGame ==
    /\ Received("NewGame")
    /\ \E side \in {Head(held).side} :
       \E fresh \in {[run EXCEPT !.human_side = side, !.select_pos = Pos(1, 1),
                                 !.game = @ + 1]} :
          /\ board' = Board_init
          /\ ss' = SearchState_new
          /\ last' = [op |-> "NewGame", side |-> side]
          /\ IF side = "Black"
             THEN \E after \in trigger_ai(Board_init, fresh, Tail(held)) :
                     run' = after.run /\ held' = after.held
             ELSE run' = fresh /\ held' = Tail(held)
    /\ UNCHANGED <<stack, ret>>

\* the worker thread: iterative_deepening returns and the thread clears the
\* thinking flag
WorkerReturn ==
    /\ \E w \in Searching : \E result \in SearchResults(w.root) :
          run' = [run EXCEPT !.ai_thinking = FALSE,
                             !.workers = (@ \ {w})
                                 \cup {[w EXCEPT !.pc = "returned", !.result = result]}]
    /\ UNCHANGED <<board, ss, held, last, stack, ret>>

\* the worker thread: it sends the move, if it has one, and ends
WorkerSend ==
    /\ \E w \in run.workers \ Searching :
          /\ run' = [run EXCEPT !.workers = @ \ {w}]
          /\ held' = IF is_some(w.result)
                     THEN Append(held, AIMoveMsg(unwrap(w.result), w.game)) ELSE held
    /\ UNCHANGED <<board, ss, last, stack, ret>>

NextHost ==
    \/ PressSide
    \/ PressRestart
    \/ PressUndo
    \/ PressBoard
    \/ HandleClick
    \/ HandleAIMove
    \/ HandleUndo
    \/ HandleNewGame
    \/ WorkerReturn
    \/ WorkerSend

SpecHost == InitHost /\ [][NextHost]_vars

\* an AIMove message is in the channel
AIMovePending == \E k \in 1..Len(held) : held[k].kind = "AIMove"

\* C38: an AIMove is applied only to the game it was computed for, and at
\* most one background search runs at a time
C38_StaleSearchDiscarded ==
    /\ (last.op = "AIMove" /\ last.applied) => last.from_game = last.to_game
    /\ Cardinality(Searching) <= 1

\* the two halves of C38
AIMoveAppliedToItsGame == (last.op = "AIMove" /\ last.applied) => last.from_game = last.to_game

OneSearchAtATime == Cardinality(Searching) <= 1

\* C39: Undo removes one AI move and one human move or nothing, and does not
\* leave the AI side to move with no search running and no AIMove pending
C39_UndoLeavesHumanToMove ==
    last.op = "Undo" =>
        /\ last.removed \in {0, 2}
        /\ (board.turn # last.side /\ last.removed > 0)
              => (run.workers # {} \/ AIMovePending)

\* an Undo that took back the AI's move and the human's
UndoRemovedTwo == last.op = "Undo" /\ last.removed = 2

====
